---------------------------- MODULE Spec2Model ----------------------------
(* A model of go-docmd: the candidate resolver (singleArgCandidates), the  *)
(* single-target loop of cliApp.execute, the package resolver with its     *)
(* once-initialised standard-library path list, and the Markdown renderer's *)
(* package, symbol and method views.                                       *)
(*                                                                         *)
(* Strings are sequences of one-character strings, so that slicing,        *)
(* splitting and concatenation are computed as the Go code computes them.  *)
EXTENDS Integers, Sequences, FiniteSets, TLC

VARIABLES
    arg,          \* singleArgCandidates: the positional argument
    candidates,   \* singleArgCandidates: the returned []invocation
    cpc,          \* singleArgCandidates: "start" before the call, "done" after
    opts,         \* cliApp.opts / markdownRenderer.options
    rpkg,         \* markdownRenderer.pkg
    rsym,         \* the symbol asked of renderSymbol / the type of renderMethod
    rmeth,        \* the method or field asked of renderMethod
    rout,         \* the bytes.Buffer the renderer writes into
    rret,         \* the renderer's return value
    rpc,          \* which view has been rendered: "start", "package", "symbol", "method"
    positionals,  \* execute: the positional arguments
    statOut,      \* what os.Stat answers for opts.outputPath
    statRoot,     \* what os.Stat answers for the root of the package tree
    epc,          \* execute: where the run stands
    mode,         \* execute: "single", "inplace" or "dir" once it has chosen
    treeRoot,     \* documentPackageTree: root
    execCands,    \* execute: candidates
    ci,           \* execute: the index of the next candidate of the loop
    lastErr,      \* execute: lastErr
    ret,          \* execute: the error returned
    outLog,       \* the output operations asked so far, in order
    loadLog,      \* the pattern lists handed to packages.Load so far, in order
    treeLoaded,   \* loadPackageTree: what packages.Load answered
    tried,        \* execute: one record per finished loop iteration
    docs,         \* writePackageDocsToDir / InPlace: docs
    treeBase,     \* documentPackageTree / writePackageDocsInPlace: baseDir
    wi,           \* the index of the next tree document of the write loop
    tocEntries,   \* writePackageDocsToDir / InPlace: entries
    rootDoc,      \* the index in docs of rootDoc, 0 for nil
    rootPath,     \* writePackageDocsToDir / InPlace: rootPath
    stdDone,      \* stdOnce: its done flag
    stdPackages,  \* the package-level stdPackages
    stdErr,       \* the package-level stdErr
    gpc,          \* per goroutine: where its call of matchStdSuffix stands
    garg,         \* per goroutine: arg of matchStdSuffix
    gpkgs,        \* per goroutine: the packages loadStdPackages has yet to append
    gidx,         \* per goroutine: the index of the scan over stdPackages
    gbest,        \* per goroutine: best of matchStdSuffix
    gret,         \* per goroutine: the value matchStdSuffix returned
    gcalls,       \* per goroutine: the number of its calls, this one included
    onceM,        \* stdOnce: the goroutine holding its mutex, 0 for none
    loadRuns,     \* how many times loadStdPackages has been entered
    fcall,        \* a function called on its own: its name and arguments
    fret,         \* the value that call returned
    fpc           \* where that call stands

candVars == <<arg, candidates, cpc>>

renderVars == <<rpkg, rsym, rmeth, rout, rret, rpc>>

execVars ==
    <<positionals, statOut, statRoot, epc, mode, treeRoot, execCands, ci, lastErr, ret, outLog,
      loadLog, treeLoaded, tried, docs, treeBase, wi, tocEntries, rootDoc, rootPath>>

stdVars == <<stdDone, stdPackages, stdErr>>

goVars == <<gpc, garg, gpkgs, gidx, gbest, gret, gcalls, onceM, loadRuns>>

fnVars == <<fcall, fret, fpc>>

vars ==
    <<arg, candidates, cpc, opts, rpkg, rsym, rmeth, rout, rret, rpc,
      positionals, statOut, statRoot, epc, mode, treeRoot, execCands, ci, lastErr, ret, outLog,
      loadLog, treeLoaded, tried, docs, treeBase, wi, tocEntries, rootDoc, rootPath,
      stdDone, stdPackages, stdErr,
      gpc, garg, gpkgs, gidx, gbest, gret, gcalls, onceM, loadRuns,
      fcall, fret, fpc>>

-----------------------------------------------------------------------------
(* Bounds *)

\* longest positional argument explored by the candidate resolver
MaxArgLen == 4

\* the longest list of positional arguments of a run
MaxPositionals == 3

\* the goroutines calling matchStdSuffix, and the calls each may make
NumCallers == 2

MaxCalls == 2

\* the longest text given to a text function
MaxTextLen == 6

-----------------------------------------------------------------------------
(* String helpers (package strings / unicode) *)

DOT == "."
BAR == "|"

\* the characters arguments are built from
Alphabet == {"A", "b", ".", "/", "\\", "|"}

SP == " "
NL == "\n"
TAB == "\t"
\* a carriage return: white space to strings.TrimSpace, not to leadingWhitespace
CR == "\r"
\* the backquote (code 96), one character of the model
BQ == "<bq>"
\* the em dash U+2014 of bulletLine and buildTOC, one character of the model
EMDASH == "<U+2014>"

\* the printable ASCII characters in code order, from 32 (space) to 126 (~)
AsciiTable ==
    <<" ", "!", "\"", "#", "$", "%", "&", "'", "(", ")", "*", "+", ",", "-", ".", "/",
      "0", "1", "2", "3", "4", "5", "6", "7", "8", "9", ":", ";", "<", "=", ">", "?",
      "@", "A", "B", "C", "D", "E", "F", "G", "H", "I", "J", "K", "L", "M", "N", "O",
      "P", "Q", "R", "S", "T", "U", "V", "W", "X", "Y", "Z", "[", "\\", "]", "^", "_",
      "<bq>", "a", "b", "c", "d", "e", "f", "g", "h", "i", "j", "k", "l", "m", "n", "o",
      "p", "q", "r", "s", "t", "u", "v", "w", "x", "y", "z", "{", "|", "}", "~">>

\* the first byte of a character's UTF-8 encoding
Code(c) ==
    IF c = NL THEN 10
    ELSE IF c = TAB THEN 9
    ELSE IF c = CR THEN 13
    ELSE IF c = EMDASH THEN 226
    ELSE 31 + (CHOOSE i \in 1..Len(AsciiTable) : AsciiTable[i] = c)

\* unicode.IsUpper on the ASCII characters of the model
IsUpper(c) ==
    LET inRange(n) == 65 <= n /\ n <= 90
    IN  inRange(Code(c))

StringsUpTo(n) == UNION {[1..k -> Alphabet] : k \in 0..n}

\* the elements of a finite set of integers, in increasing order
SortedSeq(S) ==
    [k \in 1..Cardinality(S) |->
        CHOOSE i \in S : Cardinality({j \in S : j < i}) = k - 1]

\* strings.Contains(s, c) for a one-character c
Contains(s, c) == \E i \in 1..Len(s) : s[i] = c

\* strings.ContainsAny(s, chars)
ContainsAny(s, chars) == \E i \in 1..Len(s) : s[i] \in chars

\* strings.Index(s, c) for a one-character c, 1-based; 0 when absent
IndexOf(s, c) ==
    IF Contains(s, c) THEN CHOOSE i \in 1..Len(s) : s[i] = c /\ \A j \in 1..(i-1) : s[j] # c
    ELSE 0

\* strings.Split(s, sep) for a one-character sep: the parts between separators
RECURSIVE Split(_, _)
Split(s, sep) ==
    LET cut(i) == IF i = 0 THEN <<s>>
                  ELSE <<SubSeq(s, 1, i - 1)>> \o Split(SubSeq(s, i + 1, Len(s)), sep)
    IN  cut(IndexOf(s, sep))

\* strings.Join(parts, sep) for a one-character sep
RECURSIVE Join(_, _)
Join(parts, sep) ==
    IF Len(parts) = 0 THEN <<>>
    ELSE IF Len(parts) = 1 THEN parts[1]
    ELSE parts[1] \o <<sep>> \o Join(Tail(parts), sep)

-----------------------------------------------------------------------------
(* Text helpers of the renderer (packages strings, sort) *)

\* Go's string comparison s < t: byte-wise lexicographic
RECURSIVE StrLess(_, _)
StrLess(s, t) ==
    IF t = <<>> THEN FALSE
    ELSE IF s = <<>> THEN TRUE
    ELSE LET less(a, b) == IF a # b THEN a < b ELSE StrLess(Tail(s), Tail(t))
         IN  less(Code(s[1]), Code(t[1]))

\* sort.Strings: insertion of each string into a sorted list
RECURSIVE InsertSorted(_, _)
InsertSorted(x, sorted) ==
    IF sorted = <<>> THEN <<x>>
    ELSE IF StrLess(x, sorted[1]) THEN <<x>> \o sorted
    ELSE <<sorted[1]>> \o InsertSorted(x, Tail(sorted))

RECURSIVE SortStrings(_)
SortStrings(list) ==
    IF list = <<>> THEN <<>>
    ELSE InsertSorted(list[Len(list)], SortStrings(SubSeq(list, 1, Len(list) - 1)))

IsSpace(c) == c \in {SP, TAB, NL, CR}

\* strings.TrimSpace
RECURSIVE TrimLeft(_)
TrimLeft(s) == IF s # <<>> /\ IsSpace(s[1]) THEN TrimLeft(Tail(s)) ELSE s

RECURSIVE TrimRight(_)
TrimRight(s) ==
    IF s # <<>> /\ IsSpace(s[Len(s)]) THEN TrimRight(SubSeq(s, 1, Len(s) - 1)) ELSE s

TrimSpace(s) == TrimRight(TrimLeft(s))

\* strings.HasPrefix / strings.HasSuffix / strings.TrimPrefix
HasPrefix(s, pre) == Len(s) >= Len(pre) /\ SubSeq(s, 1, Len(pre)) = pre

HasSuffix(s, suf) == Len(s) >= Len(suf) /\ SubSeq(s, Len(s) - Len(suf) + 1, Len(s)) = suf

TrimPrefix(s, pre) == IF HasPrefix(s, pre) THEN SubSeq(s, Len(pre) + 1, Len(s)) ELSE s

\* strings.ReplaceAll(s, "\n", " ")
ReplaceNewlines(s) == [i \in 1..Len(s) |-> IF s[i] = NL THEN SP ELSE s[i]]

\* strings.EqualFold on ASCII strings: byte-wise, a pair of bytes matching
\* when equal or when the smaller is 'A'..'Z' and the larger its lower case
EqualFold(s, t) ==
    /\ Len(s) = Len(t)
    /\ \A i \in 1..Len(s) :
        LET fold(lo, hi) == lo = hi \/ (65 <= lo /\ lo <= 90 /\ hi = lo + 97 - 65)
            ordered(a, b) == IF a < b THEN fold(a, b) ELSE fold(b, a)
        IN  ordered(Code(s[i]), Code(t[i]))

\* leadingWhitespace counting spaces only (no line of the code)
RECURSIVE leadingWhitespace_SpacesOnly(_)
leadingWhitespace_SpacesOnly(line) ==
    IF line # <<>> /\ line[1] = SP THEN 1 + leadingWhitespace_SpacesOnly(Tail(line)) ELSE 0

\* leadingWhitespace
RECURSIVE leadingWhitespace(_)
leadingWhitespace(line) ==
    IF line # <<>> /\ line[1] \in {SP, TAB} THEN 1 + leadingWhitespace(Tail(line)) ELSE 0

\* dedentMarkdown
dedentMarkdown(src) ==
    LET strip(lines, minIndent) ==
            IF minIndent <= 0 THEN src
            ELSE Join([i \in 1..Len(lines) |->
                          IF Len(lines[i]) >= minIndent
                          THEN SubSeq(lines[i], minIndent + 1, Len(lines[i]))
                          ELSE lines[i]], NL)
        minOf(indents) == IF indents = {} THEN -1
                          ELSE CHOOSE m \in indents : \A k \in indents : m <= k
        scan(lines) ==
            strip(lines,
                  minOf({leadingWhitespace(lines[i]) :
                            i \in {k \in 1..Len(lines) : TrimSpace(lines[k]) # <<>>}}))
    IN  scan(Split(src, NL))

\* docMarkdown removing the common indentation before it trims (no line of
\* the code)
docMarkdown_DedentFirst(text) == TrimSpace(dedentMarkdown(text))

\* markdownRenderer.docMarkdown
docMarkdown(text) ==
    LET dedent(trimmed) == IF trimmed = <<>> THEN <<>> ELSE dedentMarkdown(trimmed)
    IN  dedent(TrimSpace(text))

\* the index of the first period, followed by a space or not (no line of
\* the code)
IndexDotSpace_AnyDot(md) ==
    LET first(hits) == IF hits = {} THEN 0 ELSE CHOOSE i \in hits : \A j \in hits : i <= j
    IN  first({i \in 1..Len(md) : md[i] = DOT})

\* strings.Index(md, ". "), 1-based; 0 when absent
IndexDotSpace(md) ==
    LET at(i) == md[i] = DOT /\ md[i + 1] = SP
        first(hits) == IF hits = {} THEN 0 ELSE CHOOSE i \in hits : \A j \in hits : i <= j
    IN  first({i \in 1..(Len(md) - 1) : at(i)})

\* markdownRenderer.summaryText
summaryText(text) ==
    LET cut(flat, idx) == TrimSpace(IF idx > 0 THEN SubSeq(flat, 1, idx) ELSE flat)
        collapse(flat) == cut(flat, IndexDotSpace(flat))
        summary(md) == IF md = <<>> THEN <<>> ELSE collapse(ReplaceNewlines(md))
    IN  summary(docMarkdown(text))

\* bulletLine
bulletLine(signature, summary) ==
    <<"-", SP, BQ>> \o signature
        \o (IF summary = <<>> THEN <<BQ>> ELSE <<BQ, SP, EMDASH, SP>> \o summary)

-----------------------------------------------------------------------------
(* Markdown renderer.  The output sink holds a sequence of blocks, one per *)
(* Fprintf/Fprintln group of the code: Block(kind, text).                   *)
(*   "h1"     "# package <text>" and a blank line                           *)
(*   "import" the import-path code span and a blank line                    *)
(*   "doc"    documentation text and a blank line                           *)
(*   "line"   one bullet line                                               *)
(*   "blank"  one empty line                                                *)
(*   "h2"     "## type <text>" and a blank line                             *)
(*   "h3"     "### <text>" and a blank line                                 *)
(*   "h4"     "#### <text>" and a blank line                                *)
(*   "code"   a fenced go code block with body <text> and a blank line      *)

Block(kind, text) == [k |-> kind, t |-> text]

\* the double quote
DQ == "\""

\* the bytes of one block, as its Fprintf/Fprintln writes them
BlockBytes(b) ==
    CASE b.k = "h1" -> <<"#", SP, "p", "a", "c", "k", "a", "g", "e", SP>> \o b.t \o <<NL, NL>>
      [] b.k = "import" ->
            <<BQ, "i", "m", "p", "o", "r", "t", SP, DQ>> \o b.t \o <<DQ, BQ, NL, NL>>
      [] b.k = "doc" -> b.t \o <<NL, NL>>
      [] b.k = "line" -> b.t \o <<NL>>
      [] b.k = "blank" -> <<NL>>
      [] b.k = "h2" -> <<"#", "#", SP, "t", "y", "p", "e", SP>> \o b.t \o <<NL, NL>>
      [] b.k = "h3" -> <<"#", "#", "#", SP>> \o b.t \o <<NL, NL>>
      [] b.k = "h4" -> <<"#", "#", "#", "#", SP>> \o b.t \o <<NL, NL>>
      [] b.k = "code" ->
            <<BQ, BQ, BQ, "g", "o", NL>> \o b.t \o <<NL, BQ, BQ, BQ, NL, NL>>

\* buf.Bytes(): the bytes of the blocks written to the buffer
RECURSIVE Bytes(_)
Bytes(blocks) ==
    IF blocks = <<>> THEN <<>> ELSE BlockBytes(blocks[1]) \o Bytes(Tail(blocks))

STR_main      == <<"m", "a", "i", "n">>
STR_func      == <<"f", "u", "n", "c">>
STR_type      == <<"t", "y", "p", "e">>
STR_Constants == <<"C", "o", "n", "s", "t", "a", "n", "t", "s">>
STR_Variables == <<"V", "a", "r", "i", "a", "b", "l", "e", "s">>
STR_Functions == <<"F", "u", "n", "c", "t", "i", "o", "n", "s">>
STR_Methods   == <<"M", "e", "t", "h", "o", "d", "s">>
STR_returning == <<"r", "e", "t", "u", "r", "n", "i", "n", "g">>

\* strings.Join(parts, sep) for any separator
RECURSIVE JoinWith(_, _)
JoinWith(parts, sep) ==
    IF Len(parts) = 0 THEN <<>>
    ELSE IF Len(parts) = 1 THEN parts[1]
    ELSE parts[1] \o sep \o JoinWith(Tail(parts), sep)

\* the concatenation of a sequence of sequences
RECURSIVE Flatten(_)
Flatten(ss) == IF ss = <<>> THEN <<>> ELSE ss[1] \o Flatten(Tail(ss))

\* matchName folding case whatever caseSensitive says
matchName_AlwaysFold(r, name, target) == EqualFold(name, target)

\* markdownRenderer.matchName
matchName(r, name, target) ==
    IF r.options.caseSensitive THEN name = target ELSE EqualFold(name, target)

\* markdownRenderer.valueHasName
valueHasName(r, v, name) == \E i \in 1..Len(v.Names) : matchName(r, v.Names[i], name)

\* markdownRenderer.valueTitle
valueTitle(v) == JoinWith(v.Names, <<",", SP>>)

\* markdownRenderer.formatNode / formatField: the declaration's formatted
\* source (go/format), "" for a nil node
formatNode(decl) == IF decl.isNil THEN <<>> ELSE TrimSpace(decl.src)

\* markdownRenderer.signature
signature(decl) ==
    IF decl.isNil \/ decl.typeIsNil THEN <<>>
    ELSE TrimSpace(STR_func \o <<SP>>
                   \o (IF decl.hasRecv THEN <<"(">> \o TrimSpace(decl.recv) \o <<")", SP>>
                       ELSE <<>>)
                   \o decl.name
                   \o TrimSpace(TrimPrefix(decl.type, STR_func)))

\* markdownRenderer.writeCodeBlock
writeCodeBlock(code) == IF code = <<>> THEN <<>> ELSE <<Block("code", TrimSpace(code))>>

\* the idiom `if doc := r.docMarkdown(text); doc != "" { Fprintln(doc); Fprintln() }`
writeDoc(text) ==
    LET write(doc) == IF doc # <<>> THEN <<Block("doc", doc)>> ELSE <<>>
    IN  write(docMarkdown(text))

\* markdownRenderer.renderValueDoc
renderValueDoc(r, v) ==
    IF r.options.short
    THEN <<Block("line", bulletLine(valueTitle(v), summaryText(v.Doc)))>>
    ELSE <<Block("h4", valueTitle(v))>> \o writeCodeBlock(formatNode(v.Decl)) \o writeDoc(v.Doc)

\* renderValuesSection without the `if len(values) == 0 { return }` guard
renderValuesSection_EvenEmpty(r, title, values) ==
    <<Block("h3", title)>>
    \o Flatten([i \in 1..Len(values) |-> renderValueDoc(r, values[i])])
    \o <<Block("blank", <<>>)>>

\* markdownRenderer.renderValuesSection
renderValuesSection(r, title, values) ==
    IF Len(values) = 0 THEN <<>>
    ELSE <<Block("h3", title)>>
         \o Flatten([i \in 1..Len(values) |-> renderValueDoc(r, values[i])])
         \o <<Block("blank", <<>>)>>

\* markdownRenderer.renderFuncDoc
renderFuncDoc(r, f, receiver) ==
    IF r.options.short
    THEN <<Block("line", bulletLine(signature(f.Decl), summaryText(f.Doc)))>>
    ELSE <<Block("h4", IF receiver # <<>> THEN receiver \o <<DOT>> \o f.Name ELSE f.Name)>>
         \o (IF r.options.showSource THEN writeCodeBlock(formatNode(f.Decl))
             ELSE <<Block("code", signature(f.Decl))>>)
         \o writeDoc(f.Doc)

\* markdownRenderer.renderFuncsSection
renderFuncsSection(r, title, funcs, receiver) ==
    IF Len(funcs) = 0 THEN <<>>
    ELSE <<Block("h3", title)>>
         \o Flatten([i \in 1..Len(funcs) |-> renderFuncDoc(r, funcs[i], receiver)])
         \o <<Block("blank", <<>>)>>

\* markdownRenderer.renderTypeDoc
renderTypeDoc(r, t) ==
    <<Block("h2", t.Name)>>
    \o writeCodeBlock(formatNode(t.Decl))
    \o writeDoc(t.Doc)
    \o renderValuesSection(r, STR_Constants, t.Consts)
    \o renderValuesSection(r, STR_Variables, t.Vars)
    \o renderFuncsSection(r, STR_Functions \o <<SP>> \o STR_returning \o <<SP>> \o t.Name,
                          t.Funcs, <<>>)
    \o renderFuncsSection(r, STR_Methods, t.Methods, t.Name)

\* markdownRenderer.renderTypesSection
renderTypesSection(r, types) ==
    Flatten([i \in 1..Len(types) |-> renderTypeDoc(r, types[i])])

\* renderPackageSummary without sort.Strings(entries) (no line of the code)
renderPackageSummary_Unsorted(r) ==
    LET pkg == r.pkg
        o == r.options
        consts == [i \in 1..Len(pkg.Consts) |->
                      bulletLine(valueTitle(pkg.Consts[i]), summaryText(pkg.Consts[i].Doc))]
        varsL == IF pkg.Name # STR_main \/ o.includeMainVars \/ o.all
                 THEN [i \in 1..Len(pkg.Vars) |->
                          bulletLine(valueTitle(pkg.Vars[i]), summaryText(pkg.Vars[i].Doc))]
                 ELSE <<>>
        funcsL == IF pkg.Name # STR_main \/ o.includeMainFuncs \/ o.all
                  THEN [i \in 1..Len(pkg.Funcs) |->
                           bulletLine(signature(pkg.Funcs[i].Decl), summaryText(pkg.Funcs[i].Doc))]
                  ELSE <<>>
        typesL == [i \in 1..Len(pkg.Types) |->
                      bulletLine(STR_type \o <<SP>> \o pkg.Types[i].Name,
                                 summaryText(pkg.Types[i].Doc))]
        write(sorted) ==
            IF Len(sorted) = 0 THEN <<>>
            ELSE [i \in 1..Len(sorted) |-> Block("line", sorted[i])] \o <<Block("blank", <<>>)>>
    IN  write(consts \o varsL \o funcsL \o typesL)

\* markdownRenderer.renderPackageSummary
renderPackageSummary(r) ==
    LET pkg == r.pkg
        o == r.options
        consts == [i \in 1..Len(pkg.Consts) |->
                      bulletLine(valueTitle(pkg.Consts[i]), summaryText(pkg.Consts[i].Doc))]
        varsL == IF pkg.Name # STR_main \/ o.includeMainVars \/ o.all
                 THEN [i \in 1..Len(pkg.Vars) |->
                          bulletLine(valueTitle(pkg.Vars[i]), summaryText(pkg.Vars[i].Doc))]
                 ELSE <<>>
        funcsL == IF pkg.Name # STR_main \/ o.includeMainFuncs \/ o.all
                  THEN [i \in 1..Len(pkg.Funcs) |->
                           bulletLine(signature(pkg.Funcs[i].Decl), summaryText(pkg.Funcs[i].Doc))]
                  ELSE <<>>
        typesL == [i \in 1..Len(pkg.Types) |->
                      bulletLine(STR_type \o <<SP>> \o pkg.Types[i].Name,
                                 summaryText(pkg.Types[i].Doc))]
        write(sorted) ==
            IF Len(sorted) = 0 THEN <<>>
            ELSE [i \in 1..Len(sorted) |-> Block("line", sorted[i])] \o <<Block("blank", <<>>)>>
    IN  write(SortStrings(consts \o varsL \o funcsL \o typesL))

\* markdownRenderer.renderPackage
renderPackage(r) ==
    LET pkg == r.pkg
        o == r.options
    IN  (IF pkg.Name # STR_main
         THEN <<Block("h1", pkg.Name)>>
              \o (IF pkg.ImportPath # <<>> THEN <<Block("import", pkg.ImportPath)>> ELSE <<>>)
         ELSE <<>>)
        \o writeDoc(pkg.Doc)
        \o renderPackageSummary(r)
        \o (IF pkg.Name = STR_main /\ ~o.showCmd /\ ~o.all
            THEN (IF o.includeMainVars \/ o.all
                  THEN renderValuesSection(r, STR_Variables, pkg.Vars) ELSE <<>>)
                 \o (IF o.includeMainFuncs \/ o.all
                     THEN renderFuncsSection(r, STR_Functions, pkg.Funcs, <<>>) ELSE <<>>)
            ELSE IF o.all
            THEN renderValuesSection(r, STR_Constants, pkg.Consts)
                 \o renderValuesSection(r, STR_Variables, pkg.Vars)
                 \o renderFuncsSection(r, STR_Functions, pkg.Funcs, <<>>)
                 \o renderTypesSection(r, pkg.Types)
            ELSE <<>>)

\* markdownRenderer.renderSymbol: [out |-> blocks written, rendered |-> result]
renderSymbol(r, symbol) ==
    LET pkg == r.pkg
        T(i) == pkg.Types[i]
        types == [i \in 1..Len(pkg.Types) |->
                    IF matchName(r, T(i).Name, symbol) THEN renderTypeDoc(r, T(i)) ELSE <<>>]
        funcs == [i \in 1..Len(pkg.Funcs) |->
                    IF matchName(r, pkg.Funcs[i].Name, symbol)
                    THEN renderFuncDoc(r, pkg.Funcs[i], <<>>) ELSE <<>>]
        consts == [i \in 1..Len(pkg.Consts) |->
                    IF valueHasName(r, pkg.Consts[i], symbol)
                    THEN renderValueDoc(r, pkg.Consts[i]) ELSE <<>>]
        varsL == [i \in 1..Len(pkg.Vars) |->
                    IF valueHasName(r, pkg.Vars[i], symbol)
                    THEN renderValueDoc(r, pkg.Vars[i]) ELSE <<>>]
        perType == [i \in 1..Len(pkg.Types) |->
                    Flatten([j \in 1..Len(T(i).Consts) |->
                        IF valueHasName(r, T(i).Consts[j], symbol)
                        THEN renderValueDoc(r, T(i).Consts[j]) ELSE <<>>])
                    \o Flatten([j \in 1..Len(T(i).Vars) |->
                        IF valueHasName(r, T(i).Vars[j], symbol)
                        THEN renderValueDoc(r, T(i).Vars[j]) ELSE <<>>])
                    \o Flatten([j \in 1..Len(T(i).Funcs) |->
                        IF matchName(r, T(i).Funcs[j].Name, symbol)
                        THEN renderFuncDoc(r, T(i).Funcs[j], T(i).Name) ELSE <<>>])]
        matched ==
            \/ \E i \in 1..Len(pkg.Types) : matchName(r, T(i).Name, symbol)
            \/ \E i \in 1..Len(pkg.Funcs) : matchName(r, pkg.Funcs[i].Name, symbol)
            \/ \E i \in 1..Len(pkg.Consts) : valueHasName(r, pkg.Consts[i], symbol)
            \/ \E i \in 1..Len(pkg.Vars) : valueHasName(r, pkg.Vars[i], symbol)
            \/ \E i \in 1..Len(pkg.Types) :
                \/ \E j \in 1..Len(T(i).Consts) : valueHasName(r, T(i).Consts[j], symbol)
                \/ \E j \in 1..Len(T(i).Vars) : valueHasName(r, T(i).Vars[j], symbol)
                \/ \E j \in 1..Len(T(i).Funcs) : matchName(r, T(i).Funcs[j].Name, symbol)
    IN  [out |-> Flatten(types) \o Flatten(funcs) \o Flatten(consts) \o Flatten(varsL)
                 \o Flatten(perType),
         rendered |-> matched]

\* markdownRenderer.renderFieldDoc: [out, rendered]; a type whose declaration
\* holds no struct type spec of its name has no fields to render
renderFieldDoc(r, t, fieldName) ==
    LET hits(f) == {n \in 1..Len(f.Names) : matchName(r, f.Names[n], fieldName)}
        one(f, n) ==
            IF ~matchName(r, f.Names[n], fieldName) THEN <<>>
            ELSE IF r.options.short
            THEN <<Block("line", bulletLine(t.Name \o <<DOT>> \o f.Names[n],
                                            summaryText(f.Doc)))>>
            ELSE <<Block("h4", t.Name \o <<DOT>> \o f.Names[n])>>
                 \o writeCodeBlock(formatNode(f.Decl))
                 \o writeDoc(f.Doc)
    IN  IF t.Decl.isNil \/ ~t.isStruct THEN [out |-> <<>>, rendered |-> FALSE]
        ELSE [out |-> Flatten([i \in 1..Len(t.Fields) |->
                          Flatten([n \in 1..Len(t.Fields[i].Names) |-> one(t.Fields[i], n)])]),
              rendered |-> \E i \in 1..Len(t.Fields) : hits(t.Fields[i]) # {}]

\* markdownRenderer.renderMethod: [out, rendered]
renderMethod(r, typeName, methodName) ==
    LET pkg == r.pkg
        T(i) == pkg.Types[i]
        perType == [i \in 1..Len(pkg.Types) |->
            IF ~matchName(r, T(i).Name, typeName) THEN <<>>
            ELSE Flatten([j \in 1..Len(T(i).Methods) |->
                    IF matchName(r, T(i).Methods[j].Name, methodName)
                    THEN renderFuncDoc(r, T(i).Methods[j], T(i).Name) ELSE <<>>])
                 \o renderFieldDoc(r, T(i), methodName).out]
    IN  [out |-> Flatten(perType),
         rendered |-> \E i \in 1..Len(pkg.Types) :
                        /\ matchName(r, T(i).Name, typeName)
                        /\ \/ \E j \in 1..Len(T(i).Methods) :
                                matchName(r, T(i).Methods[j].Name, methodName)
                           \/ renderFieldDoc(r, T(i), methodName).rendered]

\* markdownRenderer.packageSummary
packageSummary(r) == summaryText(r.pkg.Doc)

-----------------------------------------------------------------------------
(* The documentation packages of the model: what go/packages and go/doc     *)
(* hand to the renderer.  Names are short so that the views stay readable.  *)

\* *ast.GenDecl of a value or type (src: its go/format text)
GenDecl(src) ==
    [isNil |-> FALSE, typeIsNil |-> FALSE, hasRecv |-> FALSE, recv |-> <<>>,
     name |-> <<>>, type |-> <<>>, src |-> src]

\* *ast.FuncDecl (recv: the formatted receiver list; type: the formatted
\* function type, "func(...) ...")
FuncDecl(name, recv, type) ==
    [isNil |-> FALSE, typeIsNil |-> FALSE, hasRecv |-> recv # <<>>, recv |-> recv,
     name |-> name, type |-> type,
     src |-> STR_func \o <<SP>> \o name \o TrimPrefix(type, STR_func) \o <<SP, "{", "}">>]

\* doc.Value
Value(names, docText) ==
    [Names |-> names, Doc |-> docText, Decl |-> GenDecl(<<"v", SP>> \o names[1])]

\* doc.Func
Func(name, recv, docText) ==
    [Name |-> name, Doc |-> docText,
     Decl |-> FuncDecl(name, recv, STR_func \o <<"(", ")">>)]

\* a struct field: *ast.Field with its doc comment
Field(names, docText) ==
    [Names |-> names, Doc |-> docText, Decl |-> GenDecl(names[1] \o <<SP, "T">>)]

\* doc.Type
Type(name, docText, consts, varsL, funcs, methods, isStruct, fields) ==
    [Name |-> name, Doc |-> docText, Decl |-> GenDecl(STR_type \o <<SP>> \o name),
     Consts |-> consts, Vars |-> varsL, Funcs |-> funcs, Methods |-> methods,
     isStruct |-> isStruct, Fields |-> fields]

\* doc.Package
DocPackage(name, importPath, docText, consts, varsL, funcs, types) ==
    [Name |-> name, ImportPath |-> importPath, Doc |-> docText,
     Consts |-> consts, Vars |-> varsL, Funcs |-> funcs, Types |-> types]

DOC_two == <<"D", "o", ".", SP, "R", "e", ".">>
DOC_indent == <<SP, SP, "a", NL, SP, SP, SP, "b">>

\* type G struct{ N T; g T } with a typed constant K, a constructor NG, the
\* methods M and R, and an unexported method m
TypeG ==
    Type(<<"G">>, DOC_two,
         <<Value(<<<<"K">>>>, <<"k">>)>>,
         <<>>,
         <<Func(<<"N", "G">>, <<>>, <<"n">>)>>,
         <<Func(<<"M">>, <<"g", SP, "G">>, DOC_two),
           Func(<<"R">>, <<"g", SP, "G">>, <<>>),
           Func(<<"m">>, <<"g", SP, "G">>, <<>>)>>,
         TRUE,
         <<Field(<<<<"N">>>>, <<"f">>), Field(<<<<"g">>>>, <<>>)>>)

\* type I interface{}: no fields, no members
TypeI == Type(<<"I">>, <<>>, <<>>, <<>>, <<>>, <<>>, FALSE, <<>>)

\* a library package: a constant C, a constant group M, N (M is also a method
\* of G), a variable V, the functions F and g, the types G and I
PkgLib ==
    DocPackage(<<"e", "x">>, <<"p", "/", "e", "x">>, DOC_indent,
               <<Value(<<<<"C">>>>, DOC_two), Value(<<<<"M">>, <<"N">>>>, <<>>)>>,
               <<Value(<<<<"V">>>>, <<"v">>)>>,
               <<Func(<<"F">>, <<>>, <<"f">>), Func(<<"g">>, <<>>, <<>>)>>,
               <<TypeG, TypeI>>)

\* a command package with a constant, a variable, a function and a type
PkgMain ==
    DocPackage(STR_main, <<"c", "m", "d">>, <<"D">>,
               <<Value(<<<<"C">>>>, <<>>)>>,
               <<Value(<<<<"V">>>>, <<>>)>>,
               <<Func(<<"F">>, <<>>, <<>>)>>,
               <<TypeI>>)

\* a command package with no declarations
PkgMainEmpty == DocPackage(STR_main, <<"c", "2">>, <<>>, <<>>, <<>>, <<>>, <<>>)

\* a library package with types only and no import path
PkgTypes == DocPackage(<<"t">>, <<>>, <<>>, <<>>, <<>>, <<>>, <<TypeG>>)

\* a declaration the renderer gets nothing from: a nil node, or one that
\* format.Node fails on
NilDecl == [GenDecl(<<>>) EXCEPT !.isNil = TRUE]

\* a library package without documentation text, declared out of
\* alphabetical order: a constant Z, a variable B whose declaration does not
\* format, and a function F without a declaration
PkgBare ==
    DocPackage(<<"b">>, <<"p", "/", "b">>, <<>>,
               <<Value(<<<<"Z">>>>, <<>>)>>,
               <<[Value(<<<<"B">>>>, <<>>) EXCEPT !.Decl = NilDecl]>>,
               <<[Func(<<"F">>, <<>>, <<>>) EXCEPT !.Decl = NilDecl]>>,
               <<>>)

DocPool == {PkgLib, PkgMain, PkgMainEmpty, PkgTypes, PkgBare}

\* token.IsExported
IsExported(name) == name # <<>> /\ IsUpper(name[1])

\* SelectSeq with the test as an operator argument
Filter(s, Keep(_)) ==
    LET idx == SortedSeq({i \in 1..Len(s) : Keep(s[i])})
    IN  [k \in 1..Len(idx) |-> s[idx[k]]]

\* go/doc without doc.AllDecls: unexported declarations, methods and fields
\* are left out
ExportedValues(values) ==
    LET keepName(n) == IsExported(n)
        cut == [i \in 1..Len(values) |-> [values[i] EXCEPT !.Names = Filter(@, keepName)]]
        nonEmpty(v) == v.Names # <<>>
    IN  Filter(cut, nonEmpty)

ExportedFuncs(funcs) ==
    LET keep(f) == IsExported(f.Name)
    IN  Filter(funcs, keep)

ExportedTypes(types) ==
    LET keep(t) == IsExported(t.Name)
        kept == Filter(types, keep)
    IN  [i \in 1..Len(kept) |->
            [kept[i] EXCEPT !.Consts = ExportedValues(@), !.Vars = ExportedValues(@),
                            !.Funcs = ExportedFuncs(@), !.Methods = ExportedFuncs(@),
                            !.Fields = ExportedValues(@)]]

\* buildDocPackage: doc.NewFromFiles with AllDecls|AllMethods when
\* -u or -all is given
buildDocPackage(pkg, o) ==
    IF o.unexported \/ o.all THEN pkg
    ELSE [pkg EXCEPT !.Consts = ExportedValues(@), !.Vars = ExportedValues(@),
                     !.Funcs = ExportedFuncs(@), !.Types = ExportedTypes(@)]

\* type options struct, with the flags a run leaves at their defaults
Options(all, caseSensitive, showCmd, short, showSource, unexported, outputPath, inplace, includeMainVars, includeMainFuncs) ==
    [all |-> all, caseSensitive |-> caseSensitive, showCmd |-> showCmd,
     short |-> short, showSource |-> showSource, unexported |-> unexported,
     outputPath |-> outputPath, inplace |-> inplace,
     includeMainVars |-> includeMainVars, includeMainFuncs |-> includeMainFuncs]

-----------------------------------------------------------------------------
(* Candidate resolver *)

\* type invocation struct
Invocation(pkgExpr, symbol, method) ==
    [pkgExpr |-> pkgExpr, symbol |-> symbol, method |-> method]

\* splitSymbol: <<symbol, method>>
splitSymbol(spec) ==
    IF spec = <<>> THEN <<<<>>, <<>>>>
    ELSE LET parts == Split(spec, DOT)
         IN  IF Len(parts) = 1 THEN <<parts[1], <<>>>>
             ELSE <<parts[1], Join(Tail(parts), DOT)>>

\* startsWithUpper
startsWithUpper(s) == IF s = <<>> THEN FALSE ELSE IsUpper(s[1])

\* parseCompound without the `if pkgExpr == "" { continue }` guard
RECURSIVE parseCompoundFrom_KeepEmptyPrefix(_, _)
parseCompoundFrom_KeepEmptyPrefix(a, i) ==
    IF i > Len(a) THEN <<>>
    ELSE IF a[i] # DOT THEN parseCompoundFrom_KeepEmptyPrefix(a, i + 1)
    ELSE LET sm == splitSymbol(SubSeq(a, i + 1, Len(a)))
         IN  <<Invocation(SubSeq(a, 1, i - 1), sm[1], sm[2])>>
             \o parseCompoundFrom_KeepEmptyPrefix(a, i + 1)

\* parseCompound, the loop from byte index i (1-based) on
RECURSIVE parseCompoundFrom(_, _)
parseCompoundFrom(a, i) ==
    IF i > Len(a) THEN <<>>
    ELSE IF a[i] # DOT THEN parseCompoundFrom(a, i + 1)
    ELSE LET pkgExpr    == SubSeq(a, 1, i - 1)
             symbolSpec == SubSeq(a, i + 1, Len(a))
             sm         == splitSymbol(symbolSpec)
         IN  IF pkgExpr = <<>> THEN parseCompoundFrom(a, i + 1)
             ELSE <<Invocation(pkgExpr, sm[1], sm[2])>> \o parseCompoundFrom(a, i + 1)

parseCompound(a) == parseCompoundFrom(a, 1)

\* the closure `add` of singleArgCandidates, on its captured state
\* st = [seen |-> set of keys, candidates |-> list]
add(st, pkgExpr, symbol, method) ==
    LET key == pkgExpr \o <<BAR>> \o symbol \o <<BAR>> \o method
    IN  IF key \in st.seen THEN st
        ELSE [seen       |-> st.seen \cup {key},
              candidates |-> Append(st.candidates,
                                Invocation(IF pkgExpr = <<>> THEN <<DOT>> ELSE pkgExpr,
                                           symbol, method))]

\* the loop `for _, cand := range parseCompound(arg) { add(...) }`
RECURSIVE addAll(_, _)
addAll(st, cands) ==
    IF cands = <<>> THEN st
    ELSE addAll(add(st, cands[1].pkgExpr, cands[1].symbol, cands[1].method), Tail(cands))

singleArgCandidates(a) ==
    LET s0 == [seen |-> {}, candidates |-> <<>>]
        sm == splitSymbol(a)
        s1 == IF startsWithUpper(a) /\ ~ContainsAny(a, {"/", "\\"})
              THEN add(s0, <<DOT>>, sm[1], sm[2]) ELSE s0
        s2 == add(s1, a, <<>>, <<>>)
        s3 == IF Contains(a, DOT) THEN addAll(s2, parseCompound(a)) ELSE s2
        s4 == add(s3, <<DOT>>, sm[1], sm[2])
    IN  s4.candidates

-----------------------------------------------------------------------------
(* Errors.  An error value is its message: a kind and the strings put in it *)

Err(kind, a, b) == [kind |-> kind, a |-> a, b |-> b]

\* the nil error
NoErr == Err("nil", <<>>, <<>>)

\* errors.New(msg) of a usage error
UsageErr(msg) == Err(msg, <<>>, <<>>)

-----------------------------------------------------------------------------
(* Package loading: golang.org/x/tools/go/packages is the environment.      *)
(* An answer of packages.Load(cfg, patterns...) is                          *)
(*   [t |-> "err",  pkgs |-> <<>>]   Load itself failed                     *)
(*   [t |-> "ok",   pkgs |-> ...]    the packages matched, possibly none    *)

\* *packages.Package: the documentation go/doc builds from its syntax (its
\* ImportPath is the package's PkgPath), the directory of its first Go file
\* ("" when it has no files), whether doc.NewFromFiles fails on it, and the
\* messages of pkg.Errors
PkgInfo(doc, dir, docFails, errors) ==
    [PkgPath |-> doc.ImportPath, Name |-> doc.Name, dir |-> dir, doc |-> doc,
     docFails |-> docFails, Errors |-> errors]

NoPkg == PkgInfo(PkgMainEmpty, <<>>, FALSE, <<>>)

PKG_lib == PkgInfo(PkgLib, <<"/", "w">>, FALSE, <<>>)
PKG_cmd == PkgInfo(PkgMain, <<"/", "w", "/", "s">>, FALSE, <<>>)
PKG_types == PkgInfo(PkgTypes, <<"/", "v", "/", "t">>, FALSE, <<>>)
PKG_nofiles == PkgInfo(PkgMainEmpty, <<>>, FALSE, <<>>)
PKG_types2 == PkgInfo(PkgTypes, <<"/", "w", "/", "u">>, FALSE, <<>>)
PKG_nodoc == PkgInfo(PkgTypes, <<"/", "w", "/", "t">>, TRUE, <<>>)
\* a package in the directory s of the tree of PKG_lib, and one outside that
\* tree whose import path is "s"
PKG_sub ==
    PkgInfo([PkgTypes EXCEPT !.ImportPath = <<"p", "/", "e", "x", "/", "s">>],
            <<"/", "w", "/", "s">>, FALSE, <<>>)
PKG_far == PkgInfo([PkgMain EXCEPT !.ImportPath = <<"s">>], <<"/", "v", "/", "s">>, FALSE, <<>>)
PKG_broken == PkgInfo(PkgMain, <<"/", "w", "/", "s">>, FALSE, <<<<"e", "1">>, <<"e", "2">>>>)

Answer(t, pkgs) == [t |-> t, pkgs |-> pkgs]

AnswerErr == Answer("err", <<>>)

\* the answers to a single pattern, by name
LoadAnswer(name) ==
    CASE name = "err" -> AnswerErr
      [] name = "none" -> Answer("ok", <<>>)
      [] name = "broken" -> Answer("ok", <<PKG_broken, PKG_lib>>)
      [] name = "lib" -> Answer("ok", <<PKG_lib>>)
      [] name = "types" -> Answer("ok", <<PKG_types, PKG_lib>>)
      [] name = "nodoc" -> Answer("ok", <<PKG_nodoc>>)
      [] name = "cmd" -> Answer("ok", <<PKG_cmd>>)

\* the answers to the expression of a candidate
LoadAnswers == {"err", "none", "broken", "lib", "types", "nodoc", "cmd"}

\* the answers to a standard-library match
MatchAnswers == {"err", "broken", "lib"}

\* the error packages.Load returns for the patterns
LoadFailed(patterns) == Err("packages.Load failed", JoinWith(patterns, <<SP>>), <<>>)

\* loadPackage: [pkg, err] from the loader's answer for the pattern
loadPackage(pattern, answer) ==
    IF answer.t = "err" THEN [pkg |-> NoPkg, err |-> LoadFailed(<<pattern>>)]
    ELSE IF Len(answer.pkgs) = 0
    THEN [pkg |-> NoPkg, err |-> Err("no Go packages matched %q", pattern, <<>>)]
    ELSE IF Len(answer.pkgs[1].Errors) > 0
    THEN [pkg |-> NoPkg, err |-> Err("%s", answer.pkgs[1].Errors[1], <<>>)]
    ELSE [pkg |-> answer.pkgs[1], err |-> NoErr]

\* the patterns loadStdPackages hands to packages.Load
STD_patterns == <<<<"s", "t", "d">>, <<"c", "m", "d", "/", DOT, DOT, DOT>>>>

\* a package of the standard library, loaded with NeedName only
StdPkg(path) == [PkgPath |-> path]

\* the answers to the standard-library patterns: an error, or packages in the
\* order the loader lists them
StdAnswers ==
    {AnswerErr,
     Answer("ok", <<StdPkg(<<"x", "/", "j">>), StdPkg(<<"e", "/", "j">>), StdPkg(<<"j">>),
                    StdPkg(<<"e", "/", "G">>)>>)}

\* loadStdPackages as a whole: the values it leaves in stdPackages and stdErr
loadStdPackages(answer) ==
    IF answer.t = "err"
    THEN [stdPackages |-> <<>>, stdErr |-> LoadFailed(STD_patterns)]
    ELSE [stdPackages |-> SortStrings([i \in 1..Len(answer.pkgs) |-> answer.pkgs[i].PkgPath]),
          stdErr |-> NoErr]

\* one iteration of the scan of matchStdSuffix: best after looking at path
scanStep(best, path, a) ==
    IF path = a \/ HasSuffix(path, <<"/">> \o a)
    THEN IF best = <<>> \/ StrLess(path, best) THEN path ELSE best
    ELSE best

\* the scan of matchStdSuffix over the first n paths of the list
RECURSIVE scanUpTo(_, _, _)
scanUpTo(a, stdPkgs, n) ==
    IF n = 0 THEN <<>> ELSE scanStep(scanUpTo(a, stdPkgs, n - 1), stdPkgs[n], a)

\* matchStdSuffix, after stdOnce.Do has returned
matchStdSuffix(a, stdPkgs, stdErrV) ==
    IF a = <<>> THEN <<>>
    ELSE IF stdErrV # NoErr THEN <<>>
    ELSE scanUpTo(a, stdPkgs, Len(stdPkgs))

\* resolvePackage returning the first load error (no line of the code)
resolvePackage_FirstError(expr, a1, stdPkgs, stdErrV, a2) ==
    LET try == IF expr = <<>> THEN <<DOT>> ELSE expr
        first == loadPackage(try, a1)
    IN  [pkg |-> first.pkg, err |-> first.err, loads |-> <<try>>,
         match |-> <<>>, firstErr |-> first.err]

\* resolvePackage on the loader's answers: a1 for the expression itself, a2
\* for the standard-library match.  [pkg, err, loads, match, firstErr]
resolvePackage(expr, a1, stdPkgs, stdErrV, a2) ==
    LET try == IF expr = <<>> THEN <<DOT>> ELSE expr
        first == loadPackage(try, a1)
        match == matchStdSuffix(expr, stdPkgs, stdErrV)
        second == loadPackage(match, a2)
    IN  IF first.err = NoErr
        THEN [pkg |-> first.pkg, err |-> NoErr, loads |-> <<try>>,
              match |-> <<>>, firstErr |-> NoErr]
        ELSE IF match # <<>>
        THEN [pkg |-> second.pkg, err |-> second.err, loads |-> <<try, match>>,
              match |-> match, firstErr |-> first.err]
        ELSE [pkg |-> NoPkg, err |-> Err("could not resolve package path for %q", expr, <<>>),
              loads |-> <<try>>, match |-> <<>>, firstErr |-> first.err]

\* displaySymbol leaving the method out (no line of the code)
displaySymbol_SymbolOnly(symbol, method) == symbol

\* displaySymbol
displaySymbol(symbol, method) ==
    IF symbol = <<>> THEN <<>>
    ELSE IF method = <<>> THEN symbol
    ELSE symbol \o <<DOT>> \o method

\* documentTarget: [Markdown, Summary, handled, err]
documentTarget(pkgInfo, symbol, method, o) ==
    LET found(v) == [Markdown |-> Bytes(v.out), Summary |-> <<>>, handled |-> v.rendered,
                     err |-> NoErr]
        view(r) ==
            IF symbol = <<>>
            THEN [Markdown |-> Bytes(renderPackage(r)), Summary |-> packageSummary(r),
                  handled |-> TRUE, err |-> NoErr]
            ELSE IF method = <<>> THEN found(renderSymbol(r, symbol))
            ELSE found(renderMethod(r, symbol, method))
    IN  IF pkgInfo.docFails
        THEN [Markdown |-> <<>>, Summary |-> <<>>, handled |-> FALSE,
              err |-> Err("doc.NewFromFiles failed", pkgInfo.PkgPath, <<>>)]
        ELSE view([options |-> o, pkg |-> buildDocPackage(pkgInfo.doc, o)])

\* buildCandidates taking any arguments after the second as absent (no line
\* of the code)
buildCandidates_NoLimit(args) ==
    IF Len(args) = 0
    THEN [candidates |-> <<Invocation(<<DOT>>, <<>>, <<>>)>>, err |-> NoErr]
    ELSE IF Len(args) = 1
    THEN [candidates |-> singleArgCandidates(args[1]), err |-> NoErr]
    ELSE [candidates |-> <<Invocation(args[1], splitSymbol(args[2])[1],
                                      splitSymbol(args[2])[2])>>,
          err |-> NoErr]

\* buildCandidates: [candidates, err]
buildCandidates(args) ==
    IF Len(args) = 0
    THEN [candidates |-> <<Invocation(<<DOT>>, <<>>, <<>>)>>, err |-> NoErr]
    ELSE IF Len(args) = 1
    THEN [candidates |-> singleArgCandidates(args[1]), err |-> NoErr]
    ELSE IF Len(args) = 2
    THEN [candidates |-> <<Invocation(args[1], splitSymbol(args[2])[1],
                                      splitSymbol(args[2])[2])>>,
          err |-> NoErr]
    ELSE [candidates |-> <<>>, err |-> UsageErr("too many positional arguments")]

\* filepath.Ext: the suffix from the last dot of the last path element
Ext(path) ==
    LET cut(lastSep) ==
            LET dots == {i \in (lastSep + 1)..Len(path) : path[i] = DOT}
            IN  IF dots = {} THEN <<>>
                ELSE SubSeq(path, CHOOSE i \in dots : \A j \in dots : j <= i, Len(path))
        last(seps) == IF seps = {} THEN 0 ELSE CHOOSE i \in seps : \A j \in seps : j <= i
    IN  cut(last({i \in 1..Len(path) : path[i] = "/"}))

\* wantsDirectoryOutput, on what os.Stat(path) answers: "dir", "file",
\* "absent" (os.ErrNotExist) or "error" (any other error)
wantsDirectoryOutput(path, stat) ==
    IF path = <<>> \/ path = <<"-">> THEN FALSE
    ELSE IF stat = "dir" THEN TRUE
    ELSE IF stat = "file" THEN FALSE
    ELSE IF stat = "error" THEN FALSE
    ELSE IF HasSuffix(path, <<"/">>) THEN TRUE
    ELSE Ext(path) = <<>>

-----------------------------------------------------------------------------
(* Paths (package path/filepath on a Unix system: the separator is "/",     *)
(* filepath.ToSlash and filepath.FromSlash change nothing)                  *)

STR_README == <<"R", "E", "A", "D", "M", "E", ".", "m", "d">>
STR_dotdot == <<DOT, DOT>>

\* the path elements after lexical processing: empty and "." elements
\* dropped, ".." removing the element before it (kept when nothing is left
\* of a relative path, dropped at the root)
RECURSIVE CleanElems(_, _, _)
CleanElems(elems, acc, rooted) ==
    IF elems = <<>> THEN acc
    ELSE IF elems[1] = <<>> \/ elems[1] = <<DOT>> THEN CleanElems(Tail(elems), acc, rooted)
    ELSE IF elems[1] = STR_dotdot
    THEN IF acc # <<>> /\ acc[Len(acc)] # STR_dotdot
         THEN CleanElems(Tail(elems), SubSeq(acc, 1, Len(acc) - 1), rooted)
         ELSE IF rooted THEN CleanElems(Tail(elems), acc, rooted)
         ELSE CleanElems(Tail(elems), Append(acc, STR_dotdot), rooted)
    ELSE CleanElems(Tail(elems), Append(acc, elems[1]), rooted)

\* filepath.Clean
Clean(path) ==
    LET rooted == path # <<>> /\ path[1] = "/"
        build(elems) ==
            IF rooted THEN <<"/">> \o JoinWith(elems, <<"/">>)
            ELSE IF elems = <<>> THEN <<DOT>>
            ELSE JoinWith(elems, <<"/">>)
    IN  IF path = <<>> THEN <<DOT>>
        ELSE build(CleanElems(Split(path, "/"), <<>>, rooted))

\* filepath.Join of two elements: empty elements ignored, the result cleaned
JoinPath(a, b) ==
    IF a = <<>> /\ b = <<>> THEN <<>>
    ELSE Clean(IF a = <<>> THEN b ELSE IF b = <<>> THEN a ELSE a \o <<"/">> \o b)

\* strings.LastIndex(s, c) for a one-character c, 1-based; 0 when absent
LastIndexOf(s, c) ==
    LET last(hits) == IF hits = {} THEN 0 ELSE CHOOSE i \in hits : \A j \in hits : j <= i
    IN  last({i \in 1..Len(s) : s[i] = c})

\* filepath.Dir
Dir(path) ==
    LET cut(c, last) ==
            IF last = 0 THEN <<DOT>>
            ELSE IF last = 1 THEN <<"/">>
            ELSE SubSeq(c, 1, last - 1)
        find(c) == cut(c, LastIndexOf(c, "/"))
    IN  find(Clean(path))

\* filepath.Base
Base(path) ==
    LET cut(c, last) == IF c = <<"/">> THEN c ELSE SubSeq(c, last + 1, Len(c))
        find(c) == cut(c, LastIndexOf(c, "/"))
    IN  IF path = <<>> THEN <<DOT>> ELSE find(Clean(path))

\* the working directory of the process
Cwd == <<"/", "w">>

\* filepath.Abs
Abs(path) ==
    Clean(IF path # <<>> /\ path[1] = "/" THEN path ELSE Cwd \o <<"/">> \o path)

\* the elements of an absolute path
PathElems(path) == CleanElems(Split(path, "/"), <<>>, TRUE)

\* filepath.Rel(base, targ) for two absolute paths: [rel, ok]
Rel(base, targ) ==
    LET climb(b, t, common) ==
            JoinWith([i \in 1..(Len(b) - common) |-> STR_dotdot]
                        \o SubSeq(t, common + 1, Len(t)), <<"/">>)
        shared(b, t) ==
            CHOOSE n \in 0..Len(b) :
                /\ n <= Len(t)
                /\ \A i \in 1..n : b[i] = t[i]
                /\ (n < Len(b) /\ n < Len(t) => b[n + 1] # t[n + 1])
        between(b, t) == IF b = t THEN <<DOT>> ELSE climb(b, t, shared(b, t))
    IN  [rel |-> between(PathElems(base), PathElems(targ)), ok |-> TRUE]

\* strings.Contains(s, sub) for a substring
ContainsSub(s, sub) ==
    \E i \in 1..(Len(s) - Len(sub) + 1) : SubSeq(s, i, i + Len(sub) - 1) = sub

\* strings.TrimSuffix
TrimSuffix(s, suf) == IF HasSuffix(s, suf) THEN SubSeq(s, 1, Len(s) - Len(suf)) ELSE s

-----------------------------------------------------------------------------
(* Output: the operations execute asks of the sink and of the file system,  *)
(* in the order it asks them.  ok tells whether the operation succeeded.    *)

Op(op, path, data, ok) == [op |-> op, path |-> path, data |-> data, ok |-> ok]

\* what the environment answers to the output operations of one step: all
\* succeed, the directory creation fails, or the write fails
IOAnswers == {"ok", "mkdirfail", "writefail"}

MkdirErr(path) == Err("mkdir failed", path, <<>>)
WriteErr(path) == Err("write failed", path, <<>>)

\* os.MkdirAll and os.WriteFile with their errors dropped (no line of the
\* code)
mkdirAndWrite_ErrorDropped(dir, file, data, io) ==
    IF io = "mkdirfail"
    THEN [err |-> NoErr, ops |-> <<Op("mkdir", dir, <<>>, FALSE)>>]
    ELSE [err |-> NoErr,
          ops |-> <<Op("mkdir", dir, <<>>, TRUE), Op("write", file, data, io = "ok")>>]

\* os.MkdirAll(path) followed, when it succeeds, by os.WriteFile(file, data):
\* [err, ops]
mkdirAndWrite(dir, file, data, io) ==
    IF io = "mkdirfail"
    THEN [err |-> MkdirErr(dir), ops |-> <<Op("mkdir", dir, <<>>, FALSE)>>]
    ELSE IF io = "writefail"
    THEN [err |-> WriteErr(file),
          ops |-> <<Op("mkdir", dir, <<>>, TRUE), Op("write", file, data, FALSE)>>]
    ELSE [err |-> NoErr,
          ops |-> <<Op("mkdir", dir, <<>>, TRUE), Op("write", file, data, TRUE)>>]

\* writeOutput issuing its write twice (no line of the code)
writeOutput_Twice(path, data, io) ==
    [err |-> NoErr,
     ops |-> <<Op("stdout", <<>>, data, TRUE), Op("stdout", <<>>, data, TRUE)>>]

\* writeOutput: [err, ops]
writeOutput(path, data, io) ==
    IF path = <<>> \/ path = <<"-">>
    THEN IF io = "ok"
         THEN [err |-> NoErr, ops |-> <<Op("stdout", <<>>, data, TRUE)>>]
         ELSE [err |-> WriteErr(<<>>), ops |-> <<Op("stdout", <<>>, data, FALSE)>>]
    ELSE mkdirAndWrite(Dir(path), path, data, io)

-----------------------------------------------------------------------------
(* Package trees *)

STR_dots == <<DOT, DOT, DOT>>

\* buildPatterns
buildPatterns(root) ==
    LET r0 == TrimSpace(root)
        r == IF r0 = <<>> THEN <<DOT>> ELSE r0
        recursive == IF r = <<DOT>> THEN <<DOT, "/">> \o STR_dots
                     ELSE IF HasSuffix(r, <<"/">>) THEN r \o STR_dots
                     ELSE r \o <<"/">> \o STR_dots
    IN  IF ContainsSub(r, STR_dots) THEN <<r>> ELSE <<r, recursive>>

\* packageDir: the directory of the package's first Go file
packageDir(pkg) == pkg.dir

\* the key of a package in the map unique of loadPackageTree
uniqueKey(pkg) == IF pkg.PkgPath = <<>> THEN packageDir(pkg) ELSE pkg.PkgPath

\* the values of the map unique after the loop: for every key the last
\* package loaded with it
uniqueValues(pkgs) ==
    {pkgs[i] : i \in {k \in 1..Len(pkgs) :
                        \A j \in (k + 1)..Len(pkgs) : uniqueKey(pkgs[j]) # uniqueKey(pkgs[k])}}

\* the orders sort.Slice may leave a slice in when its less function compares
\* the keys (keys[i] is the key of s[i]): every permutation of s without an
\* inversion (sort.Slice is not stable)
SortedPerms(s, keys) ==
    LET n == Len(s)
        perms == {p \in [1..n -> 1..n] : \A i, j \in 1..n : i # j => p[i] # p[j]}
    IN  {[i \in 1..n |-> s[p[i]]] :
            p \in {q \in perms :
                    \A i, j \in 1..n : i < j => ~StrLess(keys[q[j]], keys[q[i]])}}

\* some enumeration of a finite set: the order of a map's iteration is any
Enumerations(S) ==
    {s \in [1..Cardinality(S) -> S] : \A i, j \in 1..Cardinality(S) : i # j => s[i] # s[j]}

\* loadPackageTree leaving out the packages that have errors instead of
\* returning the first of their errors (no line of the code)
loadPackageTree_SkipBroken(answer, patterns) ==
    LET pkgs == SelectSeq(answer.pkgs, LAMBDA p : Len(p.Errors) = 0)
        byPath(e) == [i \in 1..Len(e) |-> e[i].PkgPath]
    IN  IF answer.t = "err" THEN {[pkgs |-> <<>>, err |-> LoadFailed(patterns)]}
        ELSE {[pkgs |-> s, err |-> NoErr] :
                s \in UNION {SortedPerms(e, byPath(e)) : e \in Enumerations(uniqueValues(pkgs))}}

\* loadPackageTree: the results [pkgs, err] it can return on the loader's
\* answer
loadPackageTree(answer, patterns) ==
    LET pkgs == answer.pkgs
        broken == {i \in 1..Len(pkgs) : Len(pkgs[i].Errors) > 0}
        first == CHOOSE i \in broken : \A j \in broken : i <= j
        byPath(e) == [i \in 1..Len(e) |-> e[i].PkgPath]
    IN  IF answer.t = "err" THEN {[pkgs |-> <<>>, err |-> LoadFailed(patterns)]}
        ELSE IF broken # {}
        THEN {[pkgs |-> <<>>, err |-> Err("%s", pkgs[first].Errors[1], <<>>)]}
        ELSE {[pkgs |-> s, err |-> NoErr] :
                s \in UNION {SortedPerms(e, byPath(e)) : e \in Enumerations(uniqueValues(pkgs))}}

STR_slashdots == <<"/">> \o STR_dots
STR_backslashdots == <<"\\">> \o STR_dots

\* resolveBaseDir, on what os.Stat answers for the root
resolveBaseDir(root, stat) ==
    LET r0 == TrimSpace(root)
        r1 == IF r0 = <<>> THEN <<DOT>> ELSE r0
        r2 == TrimSuffix(TrimSuffix(r1, STR_slashdots), STR_backslashdots)
    IN  IF stat # "dir" THEN <<>> ELSE Abs(r2)

\* absolutePath
absolutePath(dir) == IF dir = <<>> THEN <<>> ELSE Abs(dir)

\* deriveRelativeDir
deriveRelativeDir(pkg, baseDir, pkgDir) ==
    LET pick(rel) ==
            IF /\ baseDir # <<>>
               /\ pkgDir # <<>>
               /\ rel.ok
               /\ rel.rel # <<>>
               /\ ~HasPrefix(rel.rel, STR_dotdot)
            THEN IF rel.rel = <<DOT>> THEN <<DOT>> ELSE rel.rel
            ELSE IF pkg.PkgPath # <<>> THEN pkg.PkgPath
            ELSE IF pkgDir # <<>> THEN Base(pkgDir)
            ELSE pkg.Name
    IN  pick(Rel(baseDir, pkgDir))

\* type treeDoc
TreeDoc(relDir, pkgDir, pkgPath, summary, markdown) ==
    [relDir |-> relDir, pkgDir |-> pkgDir, pkgPath |-> pkgPath, summary |-> summary,
     markdown |-> markdown]

\* collectPackageDocs on the packages loadPackageTree returned:
\* [docs, baseDir, err]
collectPackageDocs(pkgs, root, stat, o) ==
    LET \* res: what documentTarget returns for each package; dirs: the
        \* absolutePath of each package's directory
        collect(base0, res, dirs) ==
            LET failing == {i \in 1..Len(pkgs) : res[i].err # NoErr}
                \* baseDir once package i has been looked at
                baseAt(i) ==
                    LET withDir == {k \in 1..i : res[k].handled /\ dirs[k] # <<>>}
                    IN  IF base0 # <<>> THEN base0
                        ELSE IF withDir = {} THEN <<>>
                        ELSE dirs[CHOOSE k \in withDir : \A j \in withDir : k <= j]
                handled == SortedSeq({i \in 1..Len(pkgs) : res[i].handled})
                docOf(i) ==
                    TreeDoc(deriveRelativeDir(pkgs[i], baseAt(i), dirs[i]), dirs[i],
                            pkgs[i].PkgPath, res[i].Summary, res[i].Markdown)
            IN  IF Len(pkgs) = 0 THEN [docs |-> <<>>, baseDir |-> <<>>, err |-> NoErr]
                ELSE IF failing # {}
                THEN [docs |-> <<>>, baseDir |-> <<>>,
                      err |-> res[CHOOSE i \in failing : \A j \in failing : i <= j].err]
                ELSE [docs |-> [k \in 1..Len(handled) |-> docOf(handled[k])],
                      baseDir |-> baseAt(Len(pkgs)), err |-> NoErr]
    IN  collect(resolveBaseDir(root, stat),
                [i \in 1..Len(pkgs) |-> documentTarget(pkgs[i], <<>>, <<>>, o)],
                [i \in 1..Len(pkgs) |-> absolutePath(packageDir(pkgs[i]))])

\* whether a document is the root of the tree in writePackageDocsToDir
isRootRel(relDir) == relDir = <<>> \/ relDir = <<DOT>>

\* sameDir
\* sameDir finding no two directories the same (no line of the code)
sameDir_Never(a, b) == FALSE

\* sameDir
sameDir(a, b) == IF a = <<>> \/ b = <<>> THEN FALSE ELSE Clean(a) = Clean(b)

\* linkTitle
linkTitle(doc) ==
    IF ~isRootRel(doc.relDir) THEN doc.relDir
    ELSE IF doc.pkgPath # <<>> THEN doc.pkgPath
    ELSE <<DOT>>

\* type tocEntry
TocEntry(title, link, summary) == [title |-> title, link |-> link, summary |-> summary]

STR_Packages == <<"#", "#", SP, "P", "a", "c", "k", "a", "g", "e", "s">>

\* a line of the table of contents with the separator whatever the summary
\* (no line of the code)
tocLine_AlwaysDash(entry) ==
    <<"-", SP, "[">> \o entry.title \o <<"]", "(">> \o entry.link \o <<")">>
        \o <<SP, EMDASH, SP>> \o entry.summary

\* one line of the table of contents
tocLine(entry) ==
    <<"-", SP, "[">> \o entry.title \o <<"]", "(">> \o entry.link \o <<")">>
        \o (IF entry.summary # <<>> THEN <<SP, EMDASH, SP>> \o entry.summary ELSE <<>>)

\* buildTOC
buildTOC(entries) ==
    IF Len(entries) = 0 THEN <<>>
    ELSE STR_Packages \o <<NL, NL>>
            \o Flatten([i \in 1..Len(entries) |-> tocLine(entries[i]) \o <<NL>>])
            \o <<NL>>

\* appendTOCAfterDoc
appendTOCAfterDoc(doc, toc) ==
    IF Len(toc) = 0 THEN doc
    ELSE IF Len(doc) = 0 THEN toc
    ELSE IF HasSuffix(doc, <<NL, NL>>) THEN doc \o toc
    ELSE IF HasSuffix(doc, <<NL>>) THEN doc \o <<NL>> \o toc
    ELSE doc \o <<NL, NL>> \o toc

\* the keys the less functions handed to sort.Slice compare
lessRelDir(docList) == [i \in 1..Len(docList) |-> docList[i].relDir]
lessTitle(entryList) == [i \in 1..Len(entryList) |-> entryList[i].title]

\* what stands for the loader's answer before loadPackageTree has asked
NotLoaded == Answer("none", <<>>)

\* the answers to the patterns of a package tree
TreeAnswers ==
    {AnswerErr, Answer("ok", <<>>),
     Answer("ok", <<PKG_cmd, PKG_lib>>),
     Answer("ok", <<PKG_lib, PKG_cmd, PKG_lib>>),
     Answer("ok", <<PKG_lib, PKG_types, PKG_nofiles>>),
     Answer("ok", <<PKG_lib, PKG_broken>>),
     Answer("ok", <<PKG_nodoc, PKG_lib>>),
     Answer("ok", <<PKG_nofiles>>),
     Answer("ok", <<PKG_types, PKG_types2>>),
     Answer("ok", <<PKG_types2, PKG_cmd, PKG_lib>>),
     Answer("ok", <<PKG_lib, PKG_sub, PKG_far>>),
     Answer("ok", <<PKG_lib, PKG_nodoc, PKG_broken>>)}

-----------------------------------------------------------------------------
(* The parts of the state a specification does not use stay idle *)

DefaultOptions ==
    Options(FALSE, FALSE, FALSE, FALSE, FALSE, FALSE, <<>>, FALSE, FALSE, FALSE)

CandIdle == arg = <<>> /\ candidates = <<>> /\ cpc = "idle"

RenderIdle ==
    /\ rpkg = PkgMainEmpty /\ rsym = <<>> /\ rmeth = <<>>
    /\ rout = <<>> /\ rret = FALSE /\ rpc = "idle"

\* the state of execute before it has done anything
ExecFresh ==
    /\ mode = "" /\ treeRoot = <<>> /\ execCands = <<>> /\ ci = 1
    /\ lastErr = NoErr /\ ret = NoErr
    /\ outLog = <<>> /\ loadLog = <<>> /\ tried = <<>>
    /\ treeLoaded = NotLoaded
    /\ docs = <<>> /\ treeBase = <<>> /\ wi = 1 /\ tocEntries = <<>>
    /\ rootDoc = 0 /\ rootPath = <<>>

ExecIdle ==
    /\ positionals = <<>> /\ statOut = "absent" /\ statRoot = "absent"
    /\ epc = "idle"
    /\ ExecFresh

\* the package-level variables stdOnce, stdPackages and stdErr at process
\* start
StdFresh == stdDone = FALSE /\ stdPackages = <<>> /\ stdErr = NoErr

GoIdle ==
    /\ gpc = <<>> /\ garg = <<>> /\ gpkgs = <<>> /\ gidx = <<>> /\ gbest = <<>>
    /\ gret = <<>> /\ gcalls = <<>> /\ onceM = 0 /\ loadRuns = 0

FnIdle == fcall = <<>> /\ fret = <<>> /\ fpc = "idle"

-----------------------------------------------------------------------------
(* Specification of the candidate resolver: any argument, one call *)

CandInit ==
    /\ arg \in StringsUpTo(MaxArgLen)
    /\ candidates = <<>>
    /\ cpc = "start"
    /\ opts = DefaultOptions
    /\ RenderIdle
    /\ ExecIdle
    /\ StdFresh
    /\ GoIdle
    /\ FnIdle

CallSingleArgCandidates ==
    /\ cpc = "start"
    /\ candidates' = singleArgCandidates(arg)
    /\ cpc' = "done"
    /\ UNCHANGED <<arg, opts, renderVars, execVars, stdVars, goVars, fnVars>>

CandNext == CallSingleArgCandidates

SpecCand == CandInit /\ [][CandNext]_vars

-----------------------------------------------------------------------------
(* Specification of the renderer: any package of the pool, any options, one *)
(* call of one of the three views                                           *)

\* every combination of the flags the renderer and buildDocPackage read
RenderOptions ==
    {Options(a, c, cmd, sh, src, u, <<>>, FALSE, mv, mf) :
        a \in BOOLEAN, c \in BOOLEAN, cmd \in BOOLEAN, sh \in BOOLEAN,
        src \in BOOLEAN, u \in BOOLEAN, mv \in BOOLEAN, mf \in BOOLEAN}

\* <<symbol, method>> pairs asked of the symbol and method views
Queries ==
    {<<<<"G">>, <<>>>>, <<<<"g">>, <<>>>>, <<<<"M">>, <<>>>>, <<<<"R">>, <<>>>>,
     <<<<"n", "g">>, <<>>>>, <<<<"K">>, <<>>>>, <<<<"X">>, <<>>>>,
     <<<<"G">>, <<"M">>>>, <<<<"g">>, <<"r">>>>, <<<<"G">>, <<"N">>>>,
     <<<<"G">>, <<"g">>>>, <<<<"I">>, <<"M">>>>}

Renderer == [options |-> opts, pkg |-> rpkg]

RenderInit ==
    /\ opts \in RenderOptions
    /\ \E p \in DocPool : rpkg = buildDocPackage(p, opts)
    /\ \E q \in Queries : rsym = q[1] /\ rmeth = q[2]
    /\ rout = <<>>
    /\ rret = FALSE
    /\ rpc = "start"
    /\ CandIdle
    /\ ExecIdle
    /\ StdFresh
    /\ GoIdle
    /\ FnIdle

CallRenderPackage ==
    /\ rpc = "start"
    /\ rout' = renderPackage(Renderer)
    /\ rret' = TRUE
    /\ rpc' = "package"
    /\ UNCHANGED <<opts, rpkg, rsym, rmeth, candVars, execVars, stdVars, goVars, fnVars>>

CallRenderSymbol ==
    /\ rpc = "start"
    /\ \E v \in {renderSymbol(Renderer, rsym)} :
        rout' = v.out /\ rret' = v.rendered
    /\ rpc' = "symbol"
    /\ UNCHANGED <<opts, rpkg, rsym, rmeth, candVars, execVars, stdVars, goVars, fnVars>>

CallRenderMethod ==
    /\ rpc = "start"
    /\ rmeth # <<>>
    /\ \E v \in {renderMethod(Renderer, rsym, rmeth)} :
        rout' = v.out /\ rret' = v.rendered
    /\ rpc' = "method"
    /\ UNCHANGED <<opts, rpkg, rsym, rmeth, candVars, execVars, stdVars, goVars, fnVars>>

RenderNext == CallRenderPackage \/ CallRenderSymbol \/ CallRenderMethod

SpecRender == RenderInit /\ [][RenderNext]_vars

-----------------------------------------------------------------------------
(* Specification of cliApp.execute: one run of the command on any of the    *)
(* argument lists and options below, the loader, os.Stat and the output     *)
(* operations answering as they may.                                        *)
(*   epc = "start"  execute has been called                                 *)
(*         "loop"   in the candidate loop, before candidate ci               *)
(*         "tree"   documentPackageTree has been called                      *)
(*         "begin"  the tree documents are collected, before writing         *)
(*         "write"  in the loop of writePackageDocsToDir/InPlace, before     *)
(*                  document wi                                              *)
(*         "done"   execute has returned ret                                 *)

\* the argument lists of the runs, up to MaxPositionals arguments
Positionals ==
    {<<>>,
     <<<<>>>>,
     <<<<"G", DOT, "M">>>>,
     <<<<"j", DOT, "G">>>>,
     <<<<"p">>, <<"G", DOT, "M">>>>,
     <<<<>>, <<"g">>>>}
    \cup {[i \in 1..n |-> <<"p">>] : n \in 3..MaxPositionals}

OutputPaths == {<<>>, <<"-">>, <<"o", DOT, "m">>, <<"d", "/", "o">>}

StatAnswers == {"dir", "file", "absent", "error"}

ExecOptions ==
    {Options(a, FALSE, FALSE, FALSE, FALSE, FALSE, out, inp, FALSE, FALSE) :
        a \in BOOLEAN, out \in OutputPaths, inp \in BOOLEAN}

ExecInit ==
    /\ opts \in ExecOptions
    /\ positionals \in Positionals
    /\ statOut \in StatAnswers
    /\ statRoot \in StatAnswers
    \* os.Stat is asked only about a path that is given
    /\ (opts.outputPath \in {<<>>, <<"-">>} => statOut = "absent")
    /\ (~opts.inplace /\ ~wantsDirectoryOutput(opts.outputPath, statOut)
            => statRoot = "absent")
    /\ epc = "start"
    /\ ExecFresh
    /\ StdFresh
    /\ CandIdle
    /\ RenderIdle
    /\ GoIdle
    /\ FnIdle

\* execute returns err
Return(err) == epc' = "done" /\ ret' = err

\* root of the package tree: the argument, "." without one
rootOf(args) == IF Len(args) = 1 THEN args[1] ELSE <<DOT>>

\* execute up to the candidate loop, or up to the call of
\* documentPackageTree
ExecStart ==
    /\ epc = "start"
    /\ UNCHANGED <<opts, positionals, statOut, statRoot, treeLoaded, ci, lastErr, outLog, loadLog,
                   tried, docs, treeBase, wi, tocEntries, rootDoc, rootPath,
                   candVars, renderVars, stdVars, goVars, fnVars>>
    /\ IF opts.inplace /\ opts.outputPath # <<>>
       THEN /\ Return(UsageErr("-o cannot be combined with -inplace"))
            /\ UNCHANGED <<mode, treeRoot, execCands>>
       ELSE IF opts.inplace
       THEN IF Len(positionals) > 1
            THEN /\ Return(UsageErr("in-place mode accepts at most one package argument"))
                 /\ UNCHANGED <<mode, treeRoot, execCands>>
            ELSE /\ epc' = "tree"
                 /\ mode' = "inplace"
                 /\ treeRoot' = rootOf(positionals)
                 /\ UNCHANGED <<ret, execCands>>
       ELSE IF wantsDirectoryOutput(opts.outputPath, statOut)
       THEN IF Len(positionals) > 1
            THEN /\ Return(UsageErr("directory output accepts at most one package argument"))
                 /\ UNCHANGED <<mode, treeRoot, execCands>>
            ELSE /\ epc' = "tree"
                 /\ mode' = "dir"
                 /\ treeRoot' = rootOf(positionals)
                 /\ UNCHANGED <<ret, execCands>>
       ELSE IF opts.all /\ Len(positionals) > 1
       THEN /\ Return(UsageErr("-all can only be used with a single package argument"))
            /\ UNCHANGED <<mode, treeRoot, execCands>>
       ELSE \E built \in {buildCandidates(positionals)} :
            IF built.err # NoErr
            THEN /\ Return(built.err)
                 /\ UNCHANGED <<mode, treeRoot, execCands>>
            ELSE IF Len(built.candidates) = 0
            THEN /\ Return(UsageErr("no arguments provided"))
                 /\ UNCHANGED <<mode, treeRoot, execCands>>
            ELSE /\ epc' = "loop"
                 /\ mode' = "single"
                 /\ execCands' = built.candidates
                 /\ UNCHANGED <<ret, treeRoot>>

\* what is recorded of one iteration of the candidate loop
Tried(cand, n1, n2, res, dt) ==
    [cand |-> cand, a1 |-> n1, a2 |-> n2, match |-> res.match,
     firstErr |-> res.firstErr, resolveErr |-> res.err, pkgPath |-> res.pkg.PkgPath,
     docErr |-> dt.err, handled |-> dt.handled, markdown |-> dt.Markdown]

\* what stands for the result of documentTarget when it is not called
NotDocumented == [Markdown |-> <<>>, Summary |-> <<>>, handled |-> FALSE, err |-> NoErr]

\* one iteration of the candidate loop of execute.  n1 names the loader's
\* answer for the candidate's expression, sa is its answer for the
\* standard-library patterns, n2 names its answer for the standard-library
\* match, and io the answer to the output operations; an answer that is not
\* asked for is taken as the error.
TryCandidate ==
    /\ epc = "loop"
    /\ ci <= Len(execCands)
    /\ \E n1 \in LoadAnswers, sa \in StdAnswers, n2 \in MatchAnswers, io \in IOAnswers :
        LET cand == execCands[ci]
            try == IF cand.pkgExpr = <<>> THEN <<DOT>> ELSE cand.pkgExpr
        IN  \E a1 \in {LoadAnswer(n1)} :
            \* matchStdSuffix is called, and calls stdOnce.Do
            \E callsDo \in {loadPackage(try, a1).err # NoErr /\ cand.pkgExpr # <<>>} :
            /\ (~(callsDo /\ ~stdDone) => sa = AnswerErr)
            /\ \E std \in {IF callsDo /\ ~stdDone THEN loadStdPackages(sa)
                           ELSE [stdPackages |-> stdPackages, stdErr |-> stdErr]} :
               \E res \in {resolvePackage(cand.pkgExpr, a1, std.stdPackages, std.stdErr,
                                          LoadAnswer(n2))} :
               /\ (res.match = <<>> => n2 = "err")
               /\ \E dt \in {IF res.err = NoErr
                             THEN documentTarget(res.pkg, cand.symbol, cand.method, opts)
                             ELSE NotDocumented} :
                  /\ (~dt.handled => io = "ok")
                  /\ (opts.outputPath \in {<<>>, <<"-">>} => io # "mkdirfail")
                  /\ stdDone' = (stdDone \/ callsDo)
                  /\ stdPackages' = std.stdPackages
                  /\ stdErr' = std.stdErr
                  /\ loadLog' = loadLog \o <<<<try>>>>
                                  \o (IF callsDo /\ ~stdDone THEN <<STD_patterns>> ELSE <<>>)
                                  \o (IF res.match # <<>> THEN <<<<res.match>>>> ELSE <<>>)
                  /\ tried' = Append(tried, Tried(cand, n1, n2, res, dt))
                  /\ IF res.err # NoErr
                     THEN /\ lastErr' = res.err
                          /\ ci' = ci + 1
                          /\ UNCHANGED <<epc, ret, outLog>>
                     ELSE IF dt.err # NoErr
                     THEN /\ Return(dt.err)
                          /\ UNCHANGED <<lastErr, ci, outLog>>
                     ELSE IF ~dt.handled
                     THEN /\ lastErr' = Err("no matching symbol %q in %s",
                                            displaySymbol(cand.symbol, cand.method),
                                            res.pkg.PkgPath)
                          /\ ci' = ci + 1
                          /\ UNCHANGED <<epc, ret, outLog>>
                     ELSE \E wo \in {writeOutput(opts.outputPath, dt.Markdown, io)} :
                          /\ Return(wo.err)
                          /\ outLog' = outLog \o wo.ops
                          /\ UNCHANGED <<lastErr, ci>>
    /\ UNCHANGED <<opts, positionals, statOut, statRoot, treeLoaded, mode, treeRoot, execCands,
                   docs, treeBase, wi, tocEntries, rootDoc, rootPath,
                   candVars, renderVars, goVars, fnVars>>

\* execute after the candidate loop
ExecFinish ==
    /\ epc = "loop"
    /\ ci > Len(execCands)
    /\ Return(IF lastErr # NoErr THEN lastErr
              ELSE UsageErr("unable to locate documentation target"))
    /\ UNCHANGED <<opts, positionals, statOut, statRoot, treeLoaded, mode, treeRoot, execCands, ci, lastErr,
                   outLog, loadLog, tried, docs, treeBase, wi, tocEntries, rootDoc, rootPath,
                   candVars, renderVars, stdVars, goVars, fnVars>>

\* what stands for the result of collectPackageDocs when it is not called
NotCollected == [docs |-> <<>>, baseDir |-> <<>>, err |-> NoErr]

\* documentPackageTree up to the call of writePackageDocsInPlace or
\* writePackageDocsToDir
DocumentPackageTree ==
    /\ epc = "tree"
    /\ \E answer \in TreeAnswers, patterns \in {buildPatterns(treeRoot)} :
        \E lp \in loadPackageTree(answer, patterns) :
        \E c \in {IF lp.err = NoErr
                  THEN collectPackageDocs(lp.pkgs, treeRoot, statRoot, opts)
                  ELSE NotCollected} :
            /\ loadLog' = Append(loadLog, patterns)
            /\ treeLoaded' = answer
            /\ IF lp.err # NoErr
               THEN Return(lp.err) /\ UNCHANGED <<docs, treeBase>>
               ELSE IF c.err # NoErr
               THEN Return(c.err) /\ UNCHANGED <<docs, treeBase>>
               ELSE IF Len(c.docs) = 0
               THEN /\ Return(Err("no packages matched %q", treeRoot, <<>>))
                    /\ UNCHANGED <<docs, treeBase>>
               ELSE IF opts.inplace /\ c.baseDir = <<>>
               THEN /\ Return(UsageErr("cannot determine base directory for in-place output"))
                    /\ UNCHANGED <<docs, treeBase>>
               ELSE IF ~opts.inplace /\ opts.outputPath = <<>>
               THEN /\ Return(UsageErr("directory output requires -o pointing to a directory"))
                    /\ UNCHANGED <<docs, treeBase>>
               ELSE /\ epc' = "begin"
                    /\ docs' = c.docs
                    /\ treeBase' = c.baseDir
                    /\ UNCHANGED ret
    /\ UNCHANGED <<opts, positionals, statOut, statRoot, mode, treeRoot, execCands, ci,
                   lastErr, outLog, tried, wi, tocEntries, rootDoc, rootPath,
                   candVars, renderVars, stdVars, goVars, fnVars>>

\* writePackageDocsToDir and writePackageDocsInPlace up to their loops
WriteDocsBegin ==
    /\ epc = "begin"
    /\ IF opts.inplace
       THEN /\ epc' = "write"
            /\ treeBase' = Clean(treeBase)
            /\ rootPath' = JoinPath(Clean(treeBase), STR_README)
            /\ UNCHANGED <<docs, outLog, ret>>
       ELSE \E io \in {"ok", "mkdirfail"} :
                IF io = "mkdirfail"
                THEN /\ Return(MkdirErr(opts.outputPath))
                     /\ outLog' = Append(outLog, Op("mkdir", opts.outputPath, <<>>, FALSE))
                     /\ UNCHANGED <<docs, treeBase, rootPath>>
                ELSE /\ epc' = "write"
                     /\ outLog' = Append(outLog, Op("mkdir", opts.outputPath, <<>>, TRUE))
                     /\ docs' \in SortedPerms(docs, lessRelDir(docs))
                     /\ UNCHANGED <<treeBase, rootPath, ret>>
    /\ UNCHANGED <<opts, positionals, statOut, statRoot, treeLoaded, mode, treeRoot, execCands, ci, lastErr,
                   loadLog, tried, wi, tocEntries, rootDoc,
                   candVars, renderVars, stdVars, goVars, fnVars>>

\* one iteration of the loop of writePackageDocsToDir: [err, ops, isRoot,
\* skipped, path, entry]
writeToDirStep(outDir, doc, io) ==
    LET step(targetDir, filePath) ==
            IF isRootRel(doc.relDir)
            THEN [err |-> IF io = "mkdirfail" THEN MkdirErr(targetDir) ELSE NoErr,
                  ops |-> <<Op("mkdir", targetDir, <<>>, io # "mkdirfail")>>,
                  isRoot |-> io # "mkdirfail", skipped |-> FALSE, path |-> filePath]
            ELSE [err |-> mkdirAndWrite(targetDir, filePath, doc.markdown, io).err,
                  ops |-> mkdirAndWrite(targetDir, filePath, doc.markdown, io).ops,
                  isRoot |-> FALSE, skipped |-> FALSE, path |-> filePath]
        inDir(targetDir) == step(targetDir, JoinPath(targetDir, STR_README))
        withEntry(st) ==
            [err |-> st.err, ops |-> st.ops, isRoot |-> st.isRoot, skipped |-> st.skipped,
             path |-> st.path,
             entry |-> TocEntry(linkTitle(doc), JoinPath(doc.relDir, STR_README),
                                TrimSpace(doc.summary))]
    IN  withEntry(inDir(IF isRootRel(doc.relDir) THEN outDir
                        ELSE JoinPath(outDir, doc.relDir)))

\* one iteration of the loop of writePackageDocsInPlace
writeInPlaceStep(base, doc, io) ==
    LET link(target, rel) == IF rel.ok THEN rel.rel ELSE target
        step(target, same) ==
            IF doc.pkgDir = <<>>
            THEN [err |-> NoErr, ops |-> <<>>, isRoot |-> FALSE, skipped |-> TRUE,
                  path |-> <<>>]
            ELSE IF same
            THEN [err |-> IF io = "mkdirfail" THEN MkdirErr(doc.pkgDir) ELSE NoErr,
                  ops |-> <<Op("mkdir", doc.pkgDir, <<>>, io # "mkdirfail")>>,
                  isRoot |-> io # "mkdirfail", skipped |-> FALSE, path |-> target]
            ELSE [err |-> mkdirAndWrite(doc.pkgDir, target, doc.markdown, io).err,
                  ops |-> mkdirAndWrite(doc.pkgDir, target, doc.markdown, io).ops,
                  isRoot |-> FALSE, skipped |-> FALSE, path |-> target]
        withEntry(target, st) ==
            [err |-> st.err, ops |-> st.ops, isRoot |-> st.isRoot, skipped |-> st.skipped,
             path |-> st.path,
             entry |-> TocEntry(linkTitle(doc), link(target, Rel(base, target)),
                                TrimSpace(doc.summary))]
        at(target) == withEntry(target, step(target, sameDir(doc.pkgDir, base)))
    IN  at(JoinPath(doc.pkgDir, STR_README))

\* one iteration of the loop over the tree documents
WriteDocsStep ==
    /\ epc = "write"
    /\ wi <= Len(docs)
    /\ \E io \in IOAnswers :
        \E step \in {IF opts.inplace THEN writeInPlaceStep(treeBase, docs[wi], io)
                     ELSE writeToDirStep(opts.outputPath, docs[wi], io)} :
            /\ (Len(step.ops) = 0 => io = "ok")
            /\ (Len(step.ops) = 1 => io # "writefail")
            /\ outLog' = outLog \o step.ops
            /\ IF step.err # NoErr
               THEN /\ Return(step.err)
                    /\ UNCHANGED <<wi, tocEntries, rootDoc, rootPath>>
               ELSE /\ wi' = wi + 1
                    /\ UNCHANGED <<epc, ret>>
                    /\ IF step.skipped
                       THEN UNCHANGED <<tocEntries, rootDoc, rootPath>>
                       ELSE IF step.isRoot
                       THEN /\ rootDoc' = wi
                            /\ rootPath' = step.path
                            /\ UNCHANGED tocEntries
                       ELSE /\ tocEntries' = Append(tocEntries, step.entry)
                            /\ UNCHANGED <<rootDoc, rootPath>>
    /\ UNCHANGED <<opts, positionals, statOut, statRoot, treeLoaded, mode, treeRoot, execCands, ci, lastErr,
                   loadLog, tried, docs, treeBase,
                   candVars, renderVars, stdVars, goVars, fnVars>>

\* the content and the path of the root README, [write, path, content], once
\* the entries are sorted
rootReadme(inplace, outDir, sorted, rootMarkdown, hasRoot, path) ==
    LET readme(toc, content) ==
            IF inplace
            THEN [write |-> IF Len(content) = 0 /\ hasRoot THEN Len(rootMarkdown) # 0
                            ELSE Len(content) # 0,
                  path |-> path,
                  content |-> IF Len(content) = 0 /\ hasRoot THEN rootMarkdown ELSE content]
            ELSE [write |-> hasRoot \/ Len(toc) > 0,
                  path |-> IF hasRoot THEN path ELSE JoinPath(outDir, STR_README),
                  content |-> content]
        withTOC(toc) ==
            readme(toc, IF hasRoot THEN appendTOCAfterDoc(rootMarkdown, toc) ELSE toc)
    IN  withTOC(buildTOC(sorted))

\* writePackageDocsToDir and writePackageDocsInPlace after their loops
WriteDocsEnd ==
    /\ epc = "write"
    /\ wi > Len(docs)
    /\ \E sorted \in SortedPerms(tocEntries, lessTitle(tocEntries)), io \in {"ok", "writefail"} :
        \E rr \in {rootReadme(opts.inplace, opts.outputPath, sorted,
                               IF rootDoc = 0 THEN <<>> ELSE docs[rootDoc].markdown,
                               rootDoc # 0, rootPath)} :
            /\ (~rr.write => io = "ok")
            /\ tocEntries' = sorted
            /\ IF rr.write
               THEN /\ outLog' = Append(outLog, Op("write", rr.path, rr.content, io = "ok"))
                    /\ Return(IF io = "ok" THEN NoErr ELSE WriteErr(rr.path))
               ELSE /\ Return(NoErr)
                    /\ UNCHANGED outLog
    /\ UNCHANGED <<opts, positionals, statOut, statRoot, treeLoaded, mode, treeRoot, execCands, ci, lastErr,
                   loadLog, tried, docs, treeBase, wi, rootDoc, rootPath,
                   candVars, renderVars, stdVars, goVars, fnVars>>

ExecNext ==
    \/ ExecStart
    \/ TryCandidate
    \/ ExecFinish
    \/ DocumentPackageTree
    \/ WriteDocsBegin
    \/ WriteDocsStep
    \/ WriteDocsEnd

SpecExec == ExecInit /\ [][ExecNext]_vars

-----------------------------------------------------------------------------
(* Specification of the standard-library path list under concurrency:       *)
(* NumCallers goroutines call matchStdSuffix, each up to MaxCalls times, in *)
(* any interleaving.  stdOnce is a sync.Once: Do(f) returns at once when    *)
(* done is set; otherwise it takes the mutex, runs f if done is still not   *)
(* set, sets done, and releases the mutex.                                   *)
(*   gpc[g] = "call"    before a call of matchStdSuffix(garg[g])             *)
(*            "do"      at stdOnce.Do, before the load of done              *)
(*            "lock"    waiting for the mutex of stdOnce                     *)
(*            "slow"    holding the mutex, before the second load of done   *)
(*            "load"    in loadStdPackages, before packages.Load             *)
(*            "append"  in the loop of loadStdPackages                       *)
(*            "sort"    before sort.Strings(stdPackages)                     *)
(*            "store"   loadStdPackages has returned, before done is set    *)
(*            "unlock"  before the mutex is released                         *)
(*            "readErr" Do has returned, before the read of stdErr          *)
(*            "scan"    in the loop over stdPackages                         *)
(*            "ret"     matchStdSuffix has returned gret[g]                  *)

Callers == 1..NumCallers

\* the arguments of matchStdSuffix
StdArgs == {<<>>, <<"j">>}

StdInit ==
    /\ StdFresh
    /\ gpc = [g \in Callers |-> "call"]
    /\ garg \in [Callers -> StdArgs]
    /\ gpkgs = [g \in Callers |-> <<>>]
    /\ gidx = [g \in Callers |-> 1]
    /\ gbest = [g \in Callers |-> <<>>]
    /\ gret = [g \in Callers |-> <<>>]
    /\ gcalls = [g \in Callers |-> 1]
    /\ onceM = 0
    /\ loadRuns = 0
    /\ opts = DefaultOptions
    /\ CandIdle
    /\ RenderIdle
    /\ ExecIdle
    /\ FnIdle

\* sync.Once.doSlow running f whatever done holds (no line of the code)
needsRun_Always(done) == TRUE

\* sync.Once.doSlow: f runs if done is not set
needsRun(done) == ~done

\* matchStdSuffix up to stdOnce.Do
MatchCall(g) ==
    /\ gpc[g] = "call"
    /\ IF garg[g] = <<>>
       THEN gpc' = [gpc EXCEPT ![g] = "ret"] /\ gret' = [gret EXCEPT ![g] = <<>>]
       ELSE gpc' = [gpc EXCEPT ![g] = "do"] /\ UNCHANGED gret
    /\ UNCHANGED <<garg, gpkgs, gidx, gbest, gcalls, onceM, loadRuns, stdVars,
                   opts, candVars, renderVars, execVars, fnVars>>

\* sync.Once.Do: the load of done outside the mutex
DoFast(g) ==
    /\ gpc[g] = "do"
    /\ gpc' = [gpc EXCEPT ![g] = IF stdDone THEN "readErr" ELSE "lock"]
    /\ UNCHANGED <<garg, gpkgs, gidx, gbest, gret, gcalls, onceM, loadRuns, stdVars,
                   opts, candVars, renderVars, execVars, fnVars>>

\* sync.Once.doSlow: o.m.Lock()
DoLock(g) ==
    /\ gpc[g] = "lock"
    /\ onceM = 0
    /\ onceM' = g
    /\ gpc' = [gpc EXCEPT ![g] = "slow"]
    /\ UNCHANGED <<garg, gpkgs, gidx, gbest, gret, gcalls, loadRuns, stdVars,
                   opts, candVars, renderVars, execVars, fnVars>>

\* sync.Once.doSlow: the load of done under the mutex
DoSlow(g) ==
    /\ gpc[g] = "slow"
    /\ IF needsRun(stdDone)
       THEN gpc' = [gpc EXCEPT ![g] = "load"] /\ loadRuns' = loadRuns + 1
       ELSE gpc' = [gpc EXCEPT ![g] = "unlock"] /\ UNCHANGED loadRuns
    /\ UNCHANGED <<garg, gpkgs, gidx, gbest, gret, gcalls, onceM, stdVars,
                   opts, candVars, renderVars, execVars, fnVars>>

\* loadStdPackages: packages.Load and the check of its error
StdLoad(g) ==
    /\ gpc[g] = "load"
    /\ \E answer \in StdAnswers :
        IF answer.t = "err"
        THEN /\ stdErr' = LoadFailed(STD_patterns)
             /\ gpc' = [gpc EXCEPT ![g] = "store"]
             /\ UNCHANGED gpkgs
        ELSE /\ gpkgs' = [gpkgs EXCEPT ![g] = answer.pkgs]
             /\ gpc' = [gpc EXCEPT ![g] = "append"]
             /\ UNCHANGED stdErr
    /\ UNCHANGED <<garg, gidx, gbest, gret, gcalls, onceM, loadRuns, stdDone, stdPackages,
                   opts, candVars, renderVars, execVars, fnVars>>

\* loadStdPackages: one iteration of its loop, or the loop's end
StdAppend(g) ==
    /\ gpc[g] = "append"
    /\ IF gpkgs[g] # <<>>
       THEN /\ stdPackages' = Append(stdPackages, Head(gpkgs[g]).PkgPath)
            /\ gpkgs' = [gpkgs EXCEPT ![g] = Tail(gpkgs[g])]
            /\ UNCHANGED gpc
       ELSE /\ gpc' = [gpc EXCEPT ![g] = "sort"]
            /\ UNCHANGED <<stdPackages, gpkgs>>
    /\ UNCHANGED <<garg, gidx, gbest, gret, gcalls, onceM, loadRuns, stdDone, stdErr,
                   opts, candVars, renderVars, execVars, fnVars>>

\* loadStdPackages: sort.Strings(stdPackages)
StdSort(g) ==
    /\ gpc[g] = "sort"
    /\ stdPackages' = SortStrings(stdPackages)
    /\ gpc' = [gpc EXCEPT ![g] = "store"]
    /\ UNCHANGED <<garg, gpkgs, gidx, gbest, gret, gcalls, onceM, loadRuns, stdDone, stdErr,
                   opts, candVars, renderVars, execVars, fnVars>>

\* sync.Once.doSlow: the deferred o.done.Store(1)
DoStore(g) ==
    /\ gpc[g] = "store"
    /\ stdDone' = TRUE
    /\ gpc' = [gpc EXCEPT ![g] = "unlock"]
    /\ UNCHANGED <<garg, gpkgs, gidx, gbest, gret, gcalls, onceM, loadRuns, stdPackages,
                   stdErr, opts, candVars, renderVars, execVars, fnVars>>

\* sync.Once.doSlow: the deferred o.m.Unlock()
DoUnlock(g) ==
    /\ gpc[g] = "unlock"
    /\ onceM' = 0
    /\ gpc' = [gpc EXCEPT ![g] = "readErr"]
    /\ UNCHANGED <<garg, gpkgs, gidx, gbest, gret, gcalls, loadRuns, stdVars,
                   opts, candVars, renderVars, execVars, fnVars>>

\* matchStdSuffix: the check of stdErr
MatchReadErr(g) ==
    /\ gpc[g] = "readErr"
    /\ IF stdErr # NoErr
       THEN /\ gpc' = [gpc EXCEPT ![g] = "ret"]
            /\ gret' = [gret EXCEPT ![g] = <<>>]
            /\ UNCHANGED <<gidx, gbest>>
       ELSE /\ gpc' = [gpc EXCEPT ![g] = "scan"]
            /\ gidx' = [gidx EXCEPT ![g] = 1]
            /\ gbest' = [gbest EXCEPT ![g] = <<>>]
            /\ UNCHANGED gret
    /\ UNCHANGED <<garg, gpkgs, gcalls, onceM, loadRuns, stdVars,
                   opts, candVars, renderVars, execVars, fnVars>>

\* matchStdSuffix: one iteration of its loop, or the return of best
MatchScan(g) ==
    /\ gpc[g] = "scan"
    /\ IF gidx[g] <= Len(stdPackages)
       THEN /\ gbest' = [gbest EXCEPT ![g] = scanStep(gbest[g], stdPackages[gidx[g]], garg[g])]
            /\ gidx' = [gidx EXCEPT ![g] = gidx[g] + 1]
            /\ UNCHANGED <<gpc, gret>>
       ELSE /\ gpc' = [gpc EXCEPT ![g] = "ret"]
            /\ gret' = [gret EXCEPT ![g] = gbest[g]]
            /\ UNCHANGED <<gidx, gbest>>
    /\ UNCHANGED <<garg, gpkgs, gcalls, onceM, loadRuns, stdVars,
                   opts, candVars, renderVars, execVars, fnVars>>

\* the goroutine calls matchStdSuffix again
MatchAgain(g) ==
    /\ gpc[g] = "ret"
    /\ gcalls[g] < MaxCalls
    /\ \E a \in StdArgs : garg' = [garg EXCEPT ![g] = a]
    /\ gcalls' = [gcalls EXCEPT ![g] = gcalls[g] + 1]
    /\ gpc' = [gpc EXCEPT ![g] = "call"]
    /\ UNCHANGED <<gpkgs, gidx, gbest, gret, onceM, loadRuns, stdVars,
                   opts, candVars, renderVars, execVars, fnVars>>

StdNext ==
    \E g \in Callers :
        \/ MatchCall(g)
        \/ DoFast(g)
        \/ DoLock(g)
        \/ DoSlow(g)
        \/ StdLoad(g)
        \/ StdAppend(g)
        \/ StdSort(g)
        \/ DoStore(g)
        \/ DoUnlock(g)
        \/ MatchReadErr(g)
        \/ MatchScan(g)
        \/ MatchAgain(g)

SpecStd == StdInit /\ [][StdNext]_vars

-----------------------------------------------------------------------------
(* Specification of the functions called on their own: any input, one call *)

\* the strings over the characters A of at most n characters
StringsOver(A, n) == UNION {[1..k -> A] : k \in 0..n}

DOC_does == <<"D", "o", "e", "s", SP, "X", DOT, SP, "D", "o", "e", "s", SP, "Y", DOT>>

\* documentation texts: sentences, line breaks and blanks
SummaryTexts == StringsOver({"a", DOT, SP, NL}, MaxTextLen) \cup {DOC_does, DOC_two, DOC_indent}

\* texts to dedent: lines indented by spaces and tabs
DedentTexts == StringsOver({"a", SP, TAB, NL}, MaxTextLen) \cup {DOC_indent}

\* documentation texts as go/doc hands them over: lines with blanks, tabs and
\* carriage returns before, between and after the words
DocTexts == StringsOver({"a", SP, TAB, NL, CR}, MaxTextLen) \cup {DOC_indent}

\* the roots of a package tree
TreeRoots == {<<>>, <<DOT>>, <<"p">>, <<"p", "/">>, <<DOT, "/">> \o STR_dots}

\* the calls of collectPackageDocs, with what packages.Load and os.Stat
\* answer during the call
CollectCalls ==
    {[fn |-> "collectPackageDocs", root |-> r, o |-> o, answer |-> a, stat |-> st] :
        r \in TreeRoots, o \in {DefaultOptions, [DefaultOptions EXCEPT !.all = TRUE]},
        a \in TreeAnswers, st \in {"dir", "absent"}}

\* directories: the working directory, directories below it (one of them
\* named "..x", one named "sx" next to "s"), and one outside it
DIR_w == <<"/", "w">>
DIR_ws == <<"/", "w", "/", "s">>
DIR_wst == <<"/", "w", "/", "s", "/", "t">>
DIR_wsx == <<"/", "w", "/", "s", "x">>
DIR_wdotdotx == <<"/", "w", "/", DOT, DOT, "x">>
DIR_vt == <<"/", "v", "/", "t">>

\* the calls of deriveRelativeDir
RelativeDirCalls ==
    {[fn |-> "deriveRelativeDir", pkg |-> p, baseDir |-> b, pkgDir |-> d] :
        p \in {PKG_lib, PKG_types},
        b \in {<<>>, DIR_w, DIR_ws},
        d \in {<<>>, DIR_w, DIR_ws, DIR_wst, DIR_wsx, DIR_wdotdotx, DIR_vt}}

\* the calls of appendTOCAfterDoc: root contents with any number of
\* newlines anywhere, and no table of contents or one
AppendCalls ==
    {[fn |-> "appendTOCAfterDoc", doc |-> d, toc |-> t] :
        d \in StringsOver({"a", NL}, MaxTextLen),
        t \in {<<>>, buildTOC(<<TocEntry(<<"s">>, <<"s", "/">> \o STR_README, <<>>)>>)}}

FnInit ==
    /\ \/ fcall \in {[fn |-> "summaryText", text |-> t] : t \in SummaryTexts}
       \/ fcall \in {[fn |-> "dedentMarkdown", src |-> t] : t \in DedentTexts}
       \/ fcall \in {[fn |-> "docMarkdown", text |-> t] : t \in DocTexts}
       \/ fcall \in CollectCalls
       \/ fcall \in RelativeDirCalls
       \/ fcall \in AppendCalls
    /\ fret = <<>>
    /\ fpc = "call"
    /\ opts = DefaultOptions
    /\ CandIdle
    /\ RenderIdle
    /\ ExecIdle
    /\ StdFresh
    /\ GoIdle

CallSummaryText ==
    /\ fpc = "call" /\ fcall.fn = "summaryText"
    /\ fret' = summaryText(fcall.text)
    /\ fpc' = "done"
    /\ UNCHANGED <<fcall, opts, candVars, renderVars, execVars, stdVars, goVars>>

CallDedentMarkdown ==
    /\ fpc = "call" /\ fcall.fn = "dedentMarkdown"
    /\ fret' = dedentMarkdown(fcall.src)
    /\ fpc' = "done"
    /\ UNCHANGED <<fcall, opts, candVars, renderVars, execVars, stdVars, goVars>>

CallDocMarkdown ==
    /\ fpc = "call" /\ fcall.fn = "docMarkdown"
    /\ fret' = docMarkdown(fcall.text)
    /\ fpc' = "done"
    /\ UNCHANGED <<fcall, opts, candVars, renderVars, execVars, stdVars, goVars>>

\* dedentMarkdown called on what dedentMarkdown returned
CallDedentMarkdownAgain ==
    /\ fpc = "done" /\ fcall.fn = "dedentMarkdown"
    /\ fcall' = [fn |-> "dedentMarkdown", src |-> fret]
    /\ fret' = dedentMarkdown(fret)
    /\ fpc' = "again"
    /\ UNCHANGED <<opts, candVars, renderVars, execVars, stdVars, goVars>>

\* collectPackageDocs with its call of loadPackageTree: the patterns asked
\* for, the packages loadPackageTree returned, and [docs, baseDir, err]
CallCollectPackageDocs ==
    /\ fpc = "call" /\ fcall.fn = "collectPackageDocs"
    /\ \E patterns \in {buildPatterns(fcall.root)} :
        \E lp \in loadPackageTree(fcall.answer, patterns) :
        \E c \in {IF lp.err = NoErr
                  THEN collectPackageDocs(lp.pkgs, fcall.root, fcall.stat, fcall.o)
                  ELSE [NotCollected EXCEPT !.err = lp.err]} :
            fret' = [patterns |-> patterns, pkgs |-> lp.pkgs, docs |-> c.docs,
                     baseDir |-> c.baseDir, err |-> c.err]
    /\ fpc' = "done"
    /\ UNCHANGED <<fcall, opts, candVars, renderVars, execVars, stdVars, goVars>>

CallDeriveRelativeDir ==
    /\ fpc = "call" /\ fcall.fn = "deriveRelativeDir"
    /\ fret' = deriveRelativeDir(fcall.pkg, fcall.baseDir, fcall.pkgDir)
    /\ fpc' = "done"
    /\ UNCHANGED <<fcall, opts, candVars, renderVars, execVars, stdVars, goVars>>

CallAppendTOCAfterDoc ==
    /\ fpc = "call" /\ fcall.fn = "appendTOCAfterDoc"
    /\ fret' = appendTOCAfterDoc(fcall.doc, fcall.toc)
    /\ fpc' = "done"
    /\ UNCHANGED <<fcall, opts, candVars, renderVars, execVars, stdVars, goVars>>

FnNext ==
    \/ CallAppendTOCAfterDoc
    \/ CallDeriveRelativeDir
    \/ CallSummaryText
    \/ CallDedentMarkdown
    \/ CallDedentMarkdownAgain
    \/ CallDocMarkdown
    \/ CallCollectPackageDocs

SpecFn == FnInit /\ [][FnNext]_vars

-----------------------------------------------------------------------------
(* Helpers for stating the claims about the candidate resolver *)

\* s with every element dropped that has an earlier element of the same K
FirstBy(s, K(_)) ==
    LET keep == {j \in 1..Len(s) : \A i \in 1..(j - 1) : K(s[i]) # K(s[j])}
        idx  == SortedSeq(keep)
    IN  [k \in 1..Len(idx) |-> s[idx[k]]]

TripleOf(c) == <<c.pkgExpr, c.symbol, c.method>>

RawKeyOf(c) == c.pkgExpr \o <<BAR>> \o c.symbol \o <<BAR>> \o c.method

\* an empty package expression is listed as the current directory
DotIfEmpty(c) == IF c.pkgExpr = <<>> THEN [c EXCEPT !.pkgExpr = <<DOT>>] ELSE c

\* <<before, after>> the first dot of s; <<s, "">> when s has no dot
AtFirstDot(s) ==
    IF \E i \in 1..Len(s) : s[i] = DOT
    THEN LET i == CHOOSE k \in 1..Len(s) : s[k] = DOT /\ \A j \in 1..(k - 1) : s[j] # DOT
         IN  <<SubSeq(s, 1, i - 1), SubSeq(s, i + 1, Len(s))>>
    ELSE <<s, <<>>>>

LocalSymbolCand(a) == Invocation(<<DOT>>, AtFirstDot(a)[1], AtFirstDot(a)[2])

\* the candidate of the dot at (1-based) position i of a
DotCand(a, i) ==
    Invocation(SubSeq(a, 1, i - 1),
               AtFirstDot(SubSeq(a, i + 1, Len(a)))[1],
               AtFirstDot(SubSeq(a, i + 1, Len(a)))[2])

\* rules (1) to (4) in order, rule (3) over the dot positions >= from
ListedCandidates(a, from) ==
    LET dots == SortedSeq({i \in from..Len(a) : a[i] = DOT})
    IN  (IF startsWithUpper(a) /\ ~ContainsAny(a, {"/", "\\"})
         THEN <<LocalSymbolCand(a)>> ELSE <<>>)
        \o <<Invocation(a, <<>>, <<>>)>>
        \o [k \in 1..Len(dots) |-> DotCand(a, dots[k])]
        \o <<LocalSymbolCand(a)>>

MapDotIfEmpty(s) == [k \in 1..Len(s) |-> DotIfEmpty(s[k])]

-----------------------------------------------------------------------------
(* Claims about the candidate resolver (specification SpecCand) *)

\* C1 as stated: the returned list is, duplicates aside, rules (1) to (4) in
\* order with rule (3) ranging over EVERY dot position of the argument
\* (an empty package expression read as the current directory).
C1_AsStated ==
    cpc = "done" =>
        FirstBy(candidates, TripleOf)
            = FirstBy(MapDotIfEmpty(ListedCandidates(arg, 1)), TripleOf)

\* C1 amended: the returned list is rules (1) to (4) in order, with rule (3)
\* ranging over the dot positions that leave a non-empty prefix, an empty
\* package expression listed as ".", and a candidate left out exactly when an
\* earlier one has the same key pkgExpr|symbol|method.
C1_CandidateOrder ==
    cpc = "done" =>
        candidates = MapDotIfEmpty(FirstBy(ListedCandidates(arg, 2), RawKeyOf))

\* C1 witness: a capitalised argument with two dots has been resolved into
\* the local-symbol, package and two dot-split candidates.
C1_Witness ==
    /\ cpc = "done"
    /\ arg = <<"A", ".", "b", ".">>
    /\ Len(candidates) = 4
    /\ candidates[3] = Invocation(<<"A">>, <<"b">>, <<>>)

\* C2 as stated: for every argument the returned list holds no two candidates
\* with the same (pkgExpr, symbol, method) triple, and the candidates appear
\* in the order in which their triples are first added.
C2_NoDuplicateTriples ==
    cpc = "done" =>
        LET added == MapDotIfEmpty(ListedCandidates(arg, 2))
            first(c) == CHOOSE k \in 1..Len(added) :
                            /\ added[k] = c
                            /\ \A j \in 1..(k - 1) : added[j] # c
        IN  /\ \A i, j \in 1..Len(candidates) :
                    i < j => TripleOf(candidates[i]) # TripleOf(candidates[j])
            /\ \A i \in 1..Len(candidates) :
                    \E k \in 1..Len(added) : added[k] = candidates[i]
            /\ \A i, j \in 1..Len(candidates) :
                    i < j => first(candidates[i]) < first(candidates[j])

-----------------------------------------------------------------------------
(* Helpers for stating the claims about execute *)

\* the operations of a log that write Markdown to the sink or to a file
Writes(log) == SelectSeq(log, LAMBDA o : o.op \in {"stdout", "write"})

\* the pattern a candidate's package expression is loaded with
TryOf(c) == IF c.pkgExpr = <<>> THEN <<DOT>> ELSE c.pkgExpr

\* the candidate's package failed to load, or its symbol was not found
FellThrough(e) == e.resolveErr # NoErr \/ (e.docErr = NoErr /\ ~e.handled)

\* the candidate's package resolved and its symbol or method was matched
Succeeded(e) == e.resolveErr = NoErr /\ e.docErr = NoErr /\ e.handled

\* the single-pattern loads the tried candidates account for, in order
RECURSIVE LoadsOf(_)
LoadsOf(t) ==
    IF t = <<>> THEN <<>>
    ELSE LET e == t[Len(t)]
         IN  LoadsOf(SubSeq(t, 1, Len(t) - 1))
                \o <<<<TryOf(e.cand)>>>>
                \o (IF e.match # <<>> THEN <<<<e.match>>>> ELSE <<>>)

\* the loader's answer names a package that loads without an error
Loads(name) ==
    /\ LoadAnswer(name).t = "ok"
    /\ Len(LoadAnswer(name).pkgs) > 0
    /\ Len(LoadAnswer(name).pkgs[1].Errors) = 0

\* the package a tried candidate ended up with
LoadedPkg(e) ==
    IF Loads(e.a1) THEN LoadAnswer(e.a1).pkgs[1] ELSE LoadAnswer(e.a2).pkgs[1]

\* the error of loading a pattern, from the loader's answer
LoadErrorOf(pattern, name) ==
    IF LoadAnswer(name).t = "err" THEN Err("packages.Load failed", pattern, <<>>)
    ELSE IF Len(LoadAnswer(name).pkgs) = 0 THEN Err("no Go packages matched %q", pattern, <<>>)
    ELSE IF Len(LoadAnswer(name).pkgs[1].Errors) > 0
    THEN Err("%s", LoadAnswer(name).pkgs[1].Errors[1], <<>>)
    ELSE NoErr

\* <symbol>[.<method>] of a candidate
Requested(c) == IF c.method = <<>> THEN c.symbol ELSE c.symbol \o <<DOT>> \o c.method

\* the error a failed candidate leaves behind
ErrorOf(e) ==
    IF e.resolveErr # NoErr THEN e.resolveErr
    ELSE Err("no matching symbol %q in %s", Requested(e.cand), LoadedPkg(e).PkgPath)

\* the messages of a failed resolution
ResolutionKinds ==
    {"packages.Load failed", "no Go packages matched %q", "%s",
     "could not resolve package path for %q", "no matching symbol %q in %s"}

\* the messages of the usage errors of execute and buildCandidates
UsageKinds ==
    {"-o cannot be combined with -inplace",
     "in-place mode accepts at most one package argument",
     "directory output accepts at most one package argument",
     "-all can only be used with a single package argument",
     "too many positional arguments"}

-----------------------------------------------------------------------------
(* Claims about execute (specification SpecExec) *)

\* C3: in single-target mode the candidates are tried strictly in list
\* order, every candidate before the one execute stops at has failed to load
\* or to match and nothing is written for it, no package is loaded for a
\* candidate after it, and when the run stops at a candidate that resolved
\* and matched, the only Markdown written is that candidate's, at most once,
\* and exactly once when no output operation fails.
C3_FirstSuccessWins ==
    mode = "single" =>
        /\ Len(tried) <= Len(execCands)
        /\ \A k \in 1..Len(tried) : tried[k].cand = execCands[k]
        /\ \A k \in 1..(Len(tried) - 1) : FellThrough(tried[k])
        /\ SelectSeq(loadLog, LAMBDA p : p # STD_patterns) = LoadsOf(tried)
        /\ epc = "loop" =>
            /\ ci = Len(tried) + 1
            /\ \A k \in 1..Len(tried) : FellThrough(tried[k])
            /\ outLog = <<>>
        /\ (epc = "done" /\ tried # <<>>) =>
            LET last == tried[Len(tried)]
            IN  IF Succeeded(last)
                THEN /\ Len(Writes(outLog)) <= 1
                     /\ \A i \in 1..Len(Writes(outLog)) :
                            Writes(outLog)[i].data = last.markdown
                     /\ (\A i \in 1..Len(outLog) : outLog[i].ok) <=> ret = NoErr
                     /\ ret = NoErr => Len(Writes(outLog)) = 1
                ELSE outLog = <<>> /\ ret # NoErr

\* C3 witness: the first candidate's package loaded without the symbol, the
\* second candidate matched and its Markdown went out once, and the third
\* candidate was never tried.
C3_Witness ==
    /\ mode = "single" /\ epc = "done" /\ ret = NoErr
    /\ Len(execCands) = 3
    /\ Len(tried) = 2
    /\ tried[1].resolveErr = NoErr /\ ~tried[1].handled
    /\ Succeeded(tried[2])
    /\ outLog = <<Op("stdout", <<>>, tried[2].markdown, TRUE)>>

\* C4: when execute returns a resolution error in single-target mode, every
\* candidate has been tried and has failed, nothing was written, and the
\* error is the last candidate's: the error of resolving its package, or
\* no matching symbol "<symbol>[.<method>]" in <import path of the package
\* that was loaded>.
C4_ResolutionError ==
    (mode = "single" /\ epc = "done" /\ ret.kind \in ResolutionKinds) =>
        /\ Len(tried) = Len(execCands)
        /\ \A k \in 1..Len(tried) : FellThrough(tried[k])
        /\ outLog = <<>>
        /\ ret = ErrorOf(tried[Len(tried)])

\* C4 witness: the only candidate's package loaded, its method was not found,
\* and execute returned the message naming symbol.method and the import path.
C4_Witness ==
    /\ mode = "single" /\ epc = "done"
    /\ Len(tried) = 1
    /\ tried[1].cand.method # <<>>
    /\ tried[1].resolveErr = NoErr
    /\ ret = Err("no matching symbol %q in %s",
                 tried[1].cand.symbol \o <<DOT>> \o tried[1].cand.method,
                 <<"c", "m", "d">>)
    /\ outLog = <<>>

\* C5: once execute has acted on a run with -inplace and a non-empty output
\* path, with more than two arguments, with more than one argument in
\* in-place or directory-output mode, or with -all and more than one
\* argument, it has returned a usage error and no package was loaded and no
\* output operation was made.
C5_UsageErrorsFirst ==
    LET n == Len(positionals)
        treeMode == opts.inplace \/ wantsDirectoryOutput(opts.outputPath, statOut)
        usage ==
            \/ opts.inplace /\ opts.outputPath # <<>>
            \/ n > 2
            \/ n > 1 /\ treeMode
            \/ n > 1 /\ opts.all
    IN  (epc \notin {"idle", "start"} /\ usage) =>
            /\ epc = "done"
            /\ ret.kind \in UsageKinds
            /\ loadLog = <<>>
            /\ outLog = <<>>

\* C5 witness: a run with more than two arguments has been refused before
\* anything was loaded.
C5_Witness ==
    /\ epc = "done"
    /\ Len(positionals) > 2
    /\ ~opts.inplace /\ ~opts.all
    /\ ret = UsageErr("too many positional arguments")
    /\ loadLog = <<>>

-----------------------------------------------------------------------------
(* Claims about the standard-library path list (specification SpecStd) *)

\* loadStdPackages has run and returned
LoadFinished ==
    /\ loadRuns > 0
    /\ \A g \in DOMAIN gpc : gpc[g] \notin {"load", "append", "sort"}

\* C7: in every interleaving loadStdPackages runs at most once, a caller is
\* at the read of stdErr or in the scan of stdPackages only after that run
\* has finished, and once it has finished no step changes stdPackages or
\* stdErr.
C7_PopulatedOnce ==
    /\ [](/\ loadRuns <= 1
          /\ \A g \in DOMAIN gpc : gpc[g] \in {"readErr", "scan"} => LoadFinished)
    /\ [][LoadFinished => (stdPackages' = stdPackages /\ stdErr' = stdErr)]_vars

\* C7 witness: every caller has made all its calls, one run of
\* loadStdPackages filled the list, and two callers got a match from it.
C7_Witness ==
    /\ DOMAIN gpc # {}
    /\ \A g \in DOMAIN gpc : gpc[g] = "ret" /\ gcalls[g] = MaxCalls
    /\ loadRuns = 1
    /\ Len(stdPackages) = 4
    /\ \E g, h \in DOMAIN gpc : g # h /\ gret[g] = <<"e", "/", "j">> /\ gret[h] = gret[g]

-----------------------------------------------------------------------------
(* Helpers for stating the claims about the renderer *)

Blocks(out) == {out[i] : i \in 1..Len(out)}

\* the lower-case form of a character: 'A'..'Z' moved to 'a'..'z'
Lower(c) ==
    IF 65 <= Code(c) /\ Code(c) <= 90 THEN AsciiTable[Code(c) + 32 - 31] ELSE c

\* the two names are the same: letter for letter when exact, ignoring letter
\* case otherwise
SameName(a, b, exact) ==
    IF exact THEN a = b
    ELSE Len(a) = Len(b) /\ \A i \in 1..Len(a) : Lower(a[i]) = Lower(b[i])

\* the block that shows a function, method or field was rendered
FuncHead(f, receiver) ==
    IF opts.short THEN Block("line", bulletLine(signature(f.Decl), summaryText(f.Doc)))
    ELSE Block("h4", IF receiver # <<>> THEN receiver \o <<DOT>> \o f.Name ELSE f.Name)

\* the block that shows a constant or variable group was rendered
ValueHead(v) ==
    IF opts.short THEN Block("line", bulletLine(valueTitle(v), summaryText(v.Doc)))
    ELSE Block("h4", valueTitle(v))

TypeIdx == 1..Len(rpkg.Types)

\* index of the first block of one of the kinds, Len + 1 when there is none
FirstOf(out, kinds) ==
    IF \E i \in 1..Len(out) : out[i].k \in kinds
    THEN CHOOSE i \in 1..Len(out) :
            out[i].k \in kinds /\ \A j \in 1..(i - 1) : out[j].k \notin kinds
    ELSE Len(out) + 1

\* the texts of the blocks of a kind among the first n blocks, in order
TextsOf(out, kind, n) ==
    LET idx == SortedSeq({i \in 1..n : i <= Len(out) /\ out[i].k = kind})
    IN  [j \in 1..Len(idx) |-> out[idx[j]].t]

-----------------------------------------------------------------------------
(* Claims about the renderer (specification SpecRender) *)

\* C8 as stated: renderSymbol renders every declaration whose name matches
\* the symbol among the types, top-level functions, constants and variables
\* and each type's constants, variables, constructors AND METHODS, and
\* returns true exactly when one of them matched.
C8_SymbolViewCoversMethods ==
    rpc = "symbol" =>
        LET r == Renderer
            T(i) == rpkg.Types[i]
            anyMatch ==
                \/ \E i \in TypeIdx : matchName(r, T(i).Name, rsym)
                \/ \E i \in 1..Len(rpkg.Funcs) : matchName(r, rpkg.Funcs[i].Name, rsym)
                \/ \E i \in 1..Len(rpkg.Consts) : valueHasName(r, rpkg.Consts[i], rsym)
                \/ \E i \in 1..Len(rpkg.Vars) : valueHasName(r, rpkg.Vars[i], rsym)
                \/ \E i \in TypeIdx :
                    \/ \E j \in 1..Len(T(i).Consts) : valueHasName(r, T(i).Consts[j], rsym)
                    \/ \E j \in 1..Len(T(i).Vars) : valueHasName(r, T(i).Vars[j], rsym)
                    \/ \E j \in 1..Len(T(i).Funcs) : matchName(r, T(i).Funcs[j].Name, rsym)
                    \/ \E j \in 1..Len(T(i).Methods) : matchName(r, T(i).Methods[j].Name, rsym)
        IN  /\ rret <=> anyMatch
            /\ \A i \in TypeIdx :
                    matchName(r, T(i).Name, rsym) => Block("h2", T(i).Name) \in Blocks(rout)
            /\ \A i \in 1..Len(rpkg.Funcs) :
                    matchName(r, rpkg.Funcs[i].Name, rsym)
                        => FuncHead(rpkg.Funcs[i], <<>>) \in Blocks(rout)
            /\ \A i \in 1..Len(rpkg.Consts) :
                    valueHasName(r, rpkg.Consts[i], rsym)
                        => ValueHead(rpkg.Consts[i]) \in Blocks(rout)
            /\ \A i \in 1..Len(rpkg.Vars) :
                    valueHasName(r, rpkg.Vars[i], rsym)
                        => ValueHead(rpkg.Vars[i]) \in Blocks(rout)
            /\ \A i \in TypeIdx :
                /\ \A j \in 1..Len(T(i).Consts) :
                        valueHasName(r, T(i).Consts[j], rsym)
                            => ValueHead(T(i).Consts[j]) \in Blocks(rout)
                /\ \A j \in 1..Len(T(i).Vars) :
                        valueHasName(r, T(i).Vars[j], rsym)
                            => ValueHead(T(i).Vars[j]) \in Blocks(rout)
                /\ \A j \in 1..Len(T(i).Funcs) :
                        matchName(r, T(i).Funcs[j].Name, rsym)
                            => FuncHead(T(i).Funcs[j], T(i).Name) \in Blocks(rout)
                /\ \A j \in 1..Len(T(i).Methods) :
                        matchName(r, T(i).Methods[j].Name, rsym)
                            => FuncHead(T(i).Methods[j], T(i).Name) \in Blocks(rout)

\* C9: in the symbol view a type or top-level function is rendered exactly
\* when its name and the requested one are the same name, and in the
\* method/field view a method is rendered (and the view reports a match)
\* exactly when both the type name and the member name are the same as the
\* requested ones: ignoring letter case when caseSensitive is unset, letter
\* for letter when it is set.
C9_NameMatching ==
    LET T(i) == rpkg.Types[i]
        same(a, b) == SameName(a, b, opts.caseSensitive)
    IN  /\ rpc = "symbol" =>
            /\ \A i \in TypeIdx :
                    Block("h2", T(i).Name) \in Blocks(rout) <=> same(T(i).Name, rsym)
            /\ \A i \in 1..Len(rpkg.Funcs) :
                    FuncHead(rpkg.Funcs[i], <<>>) \in Blocks(rout)
                        <=> same(rpkg.Funcs[i].Name, rsym)
        /\ rpc = "method" =>
            /\ \A i \in TypeIdx : \A j \in 1..Len(T(i).Methods) :
                    FuncHead(T(i).Methods[j], T(i).Name) \in Blocks(rout)
                        <=> (same(T(i).Name, rsym) /\ same(T(i).Methods[j].Name, rmeth))
            /\ rret <=>
                \E i \in TypeIdx :
                    /\ same(T(i).Name, rsym)
                    /\ \/ \E j \in 1..Len(T(i).Methods) : same(T(i).Methods[j].Name, rmeth)
                       \/ /\ T(i).isStruct
                          /\ \E j \in 1..Len(T(i).Fields) :
                                \E n \in 1..Len(T(i).Fields[j].Names) :
                                    same(T(i).Fields[j].Names[n], rmeth)

\* C9 witness: the lower-case request g has matched the declared type G with
\* caseSensitive unset.
C9_Witness ==
    /\ rpc = "symbol"
    /\ rsym = <<"g">>
    /\ ~opts.caseSensitive
    /\ rret
    /\ Block("h2", <<"G">>) \in Blocks(rout)

\* C10: the package view emits the "# package" heading exactly for a package
\* not named main; then the summary list with one bullet per summarised
\* declaration; then, for a package main with neither all nor showCmd, a
\* Variables section only with includeMainVars and a Functions section only
\* with includeMainFuncs and no Constants or Types; in every other case the
\* non-empty Constants, Variables, Functions and Types sections, in that
\* order, exactly when all is set.
C10_PackageSections ==
    rpc = "package" =>
        LET isMain == rpkg.Name = STR_main
            cmdView == isMain /\ ~opts.all /\ ~opts.showCmd
            firstSec == FirstOf(rout, {"h2", "h3"})
            firstType == FirstOf(rout, {"h2"})
            nonEmpty(title, list) == IF Len(list) > 0 THEN <<title>> ELSE <<>>
            bullets ==
                Len(rpkg.Consts) + Len(rpkg.Types)
                + (IF ~isMain \/ opts.includeMainVars \/ opts.all THEN Len(rpkg.Vars) ELSE 0)
                + (IF ~isMain \/ opts.includeMainFuncs \/ opts.all THEN Len(rpkg.Funcs) ELSE 0)
            sections ==
                IF cmdView
                THEN (IF opts.includeMainVars
                      THEN nonEmpty(STR_Variables, rpkg.Vars) ELSE <<>>)
                     \o (IF opts.includeMainFuncs
                         THEN nonEmpty(STR_Functions, rpkg.Funcs) ELSE <<>>)
                ELSE IF opts.all
                THEN nonEmpty(STR_Constants, rpkg.Consts)
                     \o nonEmpty(STR_Variables, rpkg.Vars)
                     \o nonEmpty(STR_Functions, rpkg.Funcs)
                ELSE <<>>
            types ==
                IF ~cmdView /\ opts.all
                THEN [i \in TypeIdx |-> rpkg.Types[i].Name] ELSE <<>>
        IN  /\ (\E b \in Blocks(rout) : b.k = "h1") <=> ~isMain
            /\ ~isMain => rout[1] = Block("h1", rpkg.Name)
            /\ Len(TextsOf(rout, "line", firstSec - 1)) = bullets
            /\ TextsOf(rout, "h3", firstType - 1) = sections
            /\ TextsOf(rout, "h2", Len(rout)) = types

\* C10 witness: a package main rendered with includeMainVars alone shows its
\* summary and a Variables section and nothing else.
C10_Witness ==
    /\ rpc = "package"
    /\ rpkg.Name = STR_main
    /\ ~opts.all /\ ~opts.showCmd /\ opts.includeMainVars /\ ~opts.includeMainFuncs
    /\ TextsOf(rout, "h3", Len(rout)) = <<STR_Variables>>
    /\ \E b \in Blocks(rout) : b.k = "line"

\* s <= t in byte-wise lexicographic order
LexLE(s, t) ==
    LET d == {i \in 1..Len(s) : i <= Len(t) /\ s[i] # t[i]}
        at(i) == Code(s[i]) < Code(t[i])
    IN  IF d = {} THEN Len(s) <= Len(t)
        ELSE at(CHOOSE i \in d : \A j \in d : i <= j)

\* how many times x occurs in the sequence
Count(seq, x) == Cardinality({i \in 1..Len(seq) : seq[i] = x})

\* the bullets of the summary list of the package view, in declaration order
SummaryBullets ==
    LET isMain == rpkg.Name = STR_main
        valueBullet(v) == bulletLine(valueTitle(v), summaryText(v.Doc))
    IN  [i \in 1..Len(rpkg.Consts) |-> valueBullet(rpkg.Consts[i])]
        \o (IF ~isMain \/ opts.includeMainVars \/ opts.all
            THEN [i \in 1..Len(rpkg.Vars) |-> valueBullet(rpkg.Vars[i])] ELSE <<>>)
        \o (IF ~isMain \/ opts.includeMainFuncs \/ opts.all
            THEN [i \in 1..Len(rpkg.Funcs) |->
                    bulletLine(signature(rpkg.Funcs[i].Decl), summaryText(rpkg.Funcs[i].Doc))]
            ELSE <<>>)
        \o [i \in 1..Len(rpkg.Types) |->
                bulletLine(STR_type \o <<SP>> \o rpkg.Types[i].Name,
                           summaryText(rpkg.Types[i].Doc))]

\* the bullet lines the package view wrote before its first section
SummaryLines == TextsOf(rout, "line", FirstOf(rout, {"h2", "h3"}) - 1)

\* C11: the summary list of the package view holds exactly one bullet per
\* constant group, per variable group (left out for package main unless
\* includeMainVars or all), per top-level function (left out for package main
\* unless includeMainFuncs or all) and per type, and the bullets stand in
\* ascending byte-wise order of their full text whatever the declaration
\* order and the kinds.
C11_SummaryListSorted ==
    rpc = "package" =>
        /\ Len(SummaryLines) = Len(SummaryBullets)
        /\ \A i \in 1..Len(SummaryBullets) :
                Count(SummaryLines, SummaryBullets[i]) = Count(SummaryBullets, SummaryBullets[i])
        /\ \A i \in 1..(Len(SummaryLines) - 1) : LexLE(SummaryLines[i], SummaryLines[i + 1])

\* C11 witness: the variable B, declared after the constant Z, has its bullet
\* first in the summary list of three bullets and the constant's second.
C11_Witness ==
    /\ rpc = "package"
    /\ Len(rpkg.Consts) = 1 /\ rpkg.Consts[1].Names = <<<<"Z">>>>
    /\ Len(SummaryLines) = 3
    /\ SummaryLines[1] = bulletLine(<<"B">>, <<>>)
    /\ SummaryLines[2] = bulletLine(<<"Z">>, <<>>)

-----------------------------------------------------------------------------
(* Helpers for stating the claims about the text functions *)

\* the least element of a non-empty set of integers
Least(S) == CHOOSE m \in S : \A k \in S : m <= k

\* the text cut after the period of its first period-space pair, whole when
\* it has none
UpToFirstSentence(flat) ==
    LET hits == {i \in 1..(Len(flat) - 1) : flat[i] = DOT /\ flat[i + 1] = SP}
    IN  IF hits = {} THEN flat ELSE SubSeq(flat, 1, Least(hits))

\* C12: summaryText returns the text with its newlines turned into spaces, cut
\* right after the period of the first period-space pair, or whole when there
\* is no such pair, without surrounding white space; "Does X. Does Y." gives
\* "Does X." and an empty or white-space-only text gives the empty string.
C12_SummaryText ==
    (fpc = "done" /\ fcall.fn = "summaryText") =>
        LET text == fcall.text
            flat == [i \in 1..Len(text) |-> IF text[i] = NL THEN SP ELSE text[i]]
        IN  /\ fret = TrimSpace(UpToFirstSentence(flat))
            /\ (text = DOC_does => fret = <<"D", "o", "e", "s", SP, "X", DOT>>)
            /\ ((\A i \in 1..Len(text) : IsSpace(text[i])) => fret = <<>>)

\* C12 witness: "Does X. Does Y." has been summarized to "Does X.".
C12_Witness ==
    /\ fpc = "done" /\ fcall.fn = "summaryText"
    /\ fcall.text = DOC_does
    /\ fret = <<"D", "o", "e", "s", SP, "X", DOT>>

\* the number of spaces and tabs a line starts with
LeadingBlanks(line) ==
    Cardinality({i \in 1..Len(line) : \A j \in 1..i : line[j] \in {SP, TAB}})

\* C13: dedentMarkdown takes m, the least number of leading spaces and tabs
\* over the lines that are not blank, removes the first m characters of every
\* line of at least m characters and leaves the shorter lines, the number and
\* the order of the lines as they are; the difference of indentation of any
\* two non-blank lines is kept, and dedenting the result again changes
\* nothing.
C13_Dedent ==
    (fpc \in {"done", "again"} /\ fcall.fn = "dedentMarkdown") =>
        LET lines == Split(fcall.src, NL)
            out == Split(fret, NL)
            nonBlank == {i \in 1..Len(lines) : \E j \in 1..Len(lines[i]) : ~IsSpace(lines[i][j])}
            m == IF nonBlank = {} THEN 0 ELSE Least({LeadingBlanks(lines[i]) : i \in nonBlank})
        IN  /\ Len(out) = Len(lines)
            /\ \A i \in 1..Len(lines) :
                    out[i] = IF Len(lines[i]) >= m
                             THEN SubSeq(lines[i], m + 1, Len(lines[i]))
                             ELSE lines[i]
            /\ \A i, j \in nonBlank :
                    LeadingBlanks(out[i]) - LeadingBlanks(out[j])
                        = LeadingBlanks(lines[i]) - LeadingBlanks(lines[j])
            /\ (fpc = "again" => fret = fcall.src)

\* C13 witness: two lines indented by two and by three spaces have lost two
\* spaces each.
C13_Witness ==
    /\ fpc = "done" /\ fcall.fn = "dedentMarkdown"
    /\ fcall.src = DOC_indent
    /\ fret = <<"a", NL, SP, "b">>

-----------------------------------------------------------------------------
(* Helpers for stating the claims about package trees *)

\* the import path of a loaded package, or its directory when it has none
PathOrDir(pkg) == IF pkg.PkgPath = <<>> THEN pkg.dir ELSE pkg.PkgPath

\* the root as the patterns name it
PatternRoot(root) ==
    LET trimmed == TrimSpace(root) IN IF trimmed = <<>> THEN <<DOT>> ELSE trimmed

\* the packages are listed once per import path (or directory), in ascending
\* order of import path, and the documents are theirs in that order
TreeInOrder(loaded, pkgs, treeDocs) ==
    /\ {PathOrDir(pkgs[i]) : i \in 1..Len(pkgs)} = {PathOrDir(loaded[i]) : i \in 1..Len(loaded)}
    /\ \A i, j \in 1..Len(pkgs) : i # j => PathOrDir(pkgs[i]) # PathOrDir(pkgs[j])
    /\ \A i \in 1..(Len(pkgs) - 1) : LexLE(pkgs[i].PkgPath, pkgs[i + 1].PkgPath)
    /\ Len(treeDocs) = Len(pkgs)
    /\ \A i \in 1..Len(pkgs) :
            /\ treeDocs[i].pkgPath = pkgs[i].PkgPath
            /\ treeDocs[i].pkgDir = pkgs[i].dir

\* C15: the patterns are the root and, when it has no "...", the root with
\* "/..." after it; every matched package is visited once, the packages being
\* kept one per import path (per directory when the import path is empty) and
\* sorted in ascending order of import path; the tree documents are those of
\* the packages in that order; and what was loaded fixes the sequence: no
\* other order of the same packages can be returned.
C15_TreeOrderDeterministic ==
    (fpc = "done" /\ fcall.fn = "collectPackageDocs") =>
        LET root == PatternRoot(fcall.root)
            loaded == fcall.answer.pkgs
        IN  /\ fret.patterns[1] = root
            /\ Len(fret.patterns) = IF ContainsSub(root, STR_dots) THEN 1 ELSE 2
            /\ Len(fret.patterns) = 2 =>
                    fret.patterns[2] = TrimSuffix(root, <<"/">>) \o <<"/">> \o STR_dots
            /\ fret.err = NoErr =>
                    /\ TreeInOrder(loaded, fret.pkgs, fret.docs)
                    /\ \A lp \in loadPackageTree(fcall.answer, fret.patterns) :
                            lp.pkgs = fret.pkgs

\* the names of the directories on the way from the root to an absolute path
DirNames(path) ==
    LET names == Split(path, "/")
    IN  SelectSeq(names, LAMBDA n : n # <<>>)

\* the directory is the base or lies inside it
InsideOrEqual(base, dir) ==
    /\ Len(DirNames(base)) <= Len(DirNames(dir))
    /\ SubSeq(DirNames(dir), 1, Len(DirNames(base))) = DirNames(base)

\* C16: deriveRelativeDir returns what the first rule that applies gives:
\* (1) with both directories known and the package directory the base or
\* inside it, the path from the base to it, "." for the base itself; (2) the
\* import path; (3) the last name of the package directory; (4) the package's
\* name.  A package directory strictly inside the base is always served by
\* rule 1.
C16_RelativeDirRules ==
    (fpc = "done" /\ fcall.fn = "deriveRelativeDir") =>
        LET base == fcall.baseDir
            dir == fcall.pkgDir
            below == SubSeq(DirNames(dir), Len(DirNames(base)) + 1, Len(DirNames(dir)))
        IN  fret = IF base # <<>> /\ dir # <<>> /\ InsideOrEqual(base, dir)
                   THEN IF below = <<>> THEN <<DOT>> ELSE JoinWith(below, <<"/">>)
                   ELSE IF fcall.pkg.PkgPath # <<>> THEN fcall.pkg.PkgPath
                   ELSE IF dir # <<>> THEN DirNames(dir)[Len(DirNames(dir))]
                   ELSE fcall.pkg.Name

\* C19: for a non-empty root content and a non-empty table of contents
\* appendTOCAfterDoc returns the root content, exactly one empty line, and the
\* table of contents, whatever newlines the root content ends with; with an
\* empty table of contents it returns the root content, with an empty root
\* content the table of contents.
C19_OneBlankLineBeforeTOC ==
    (fpc = "done" /\ fcall.fn = "appendTOCAfterDoc") =>
        LET doc == fcall.doc
            toc == fcall.toc
            before == SubSeq(fret, 1, Len(fret) - Len(toc))
        IN  /\ toc = <<>> => fret = doc
            /\ doc = <<>> => fret = toc
            /\ (doc # <<>> /\ toc # <<>>) =>
                    /\ SubSeq(fret, 1, Len(doc)) = doc
                    /\ SubSeq(fret, Len(fret) - Len(toc) + 1, Len(fret)) = toc
                    /\ HasSuffix(before, <<NL, NL>>)
                    /\ ~HasSuffix(before, <<NL, NL, NL>>)

-----------------------------------------------------------------------------
(* Helpers for stating the claims about the files of a package tree *)

\* execute has written a package tree in the mode and returned no error
TreeWritten(m) == epc = "done" /\ mode = m /\ ret = NoErr /\ docs # <<>>

\* what stands for the content of a file that was not written
NoFile == <<"<none>">>

\* the content of the file at the path when execute returns: the data of the
\* last write to it that succeeded
FileAt(path) ==
    LET hits == {i \in 1..Len(outLog) :
                    outLog[i].op = "write" /\ outLog[i].ok /\ outLog[i].path = path}
    IN  IF hits = {} THEN NoFile
        ELSE outLog[CHOOSE i \in hits : \A j \in hits : j <= i].data

\* the tree documents that are not the root: relative path neither "" nor "."
NonRootDocs == {i \in 1..Len(docs) : docs[i].relDir \notin {<<>>, <<DOT>>}}

RootDocs == {i \in 1..Len(docs) : docs[i].relDir \in {<<>>, <<DOT>>}}

\* a bullet of the table of contents
Bullet(title, link, summary) ==
    <<"-", SP, "[">> \o title \o <<"]", "(">> \o link \o <<")">>
        \o (IF summary = <<>> THEN <<>> ELSE <<SP, EMDASH, SP>> \o summary)

\* the section "## Packages" with the bullets, one per line
PackagesSection(bullets) ==
    <<"#", "#", SP, "P", "a", "c", "k", "a", "g", "e", "s", NL, NL>>
        \o Flatten([k \in 1..Len(bullets) |-> bullets[k] \o <<NL>>]) \o <<NL>>

\* the ways of listing the documents of S in ascending order of title
ByTitle(S) ==
    {ord \in Enumerations(S) :
        \A k \in 1..(Len(ord) - 1) : LexLE(docs[ord[k]].relDir, docs[ord[k + 1]].relDir)}

\* the bullet of a document in directory mode
DirBullet(d) ==
    Bullet(d.relDir, d.relDir \o <<"/">> \o STR_README, TrimSpace(d.summary))

\* the tables of contents of the non-root documents, as directory mode links
\* them
DirTOCs ==
    {PackagesSection([k \in 1..Len(ord) |-> DirBullet(docs[ord[k]])]) : ord \in ByTitle(NonRootDocs)}

RootThenTOC(text, markdown, toc) ==
    /\ Len(text) >= Len(markdown) + Len(toc)
    /\ SubSeq(text, 1, Len(markdown)) = markdown
    /\ HasSuffix(text, toc)
    /\ \A k \in (Len(markdown) + 1)..(Len(text) - Len(toc)) : text[k] = NL

\* C17: directory mode writes every tree document to one file and drops
\* none: the Markdown of each non-root document, unchanged, is the content of
\* <outputRoot>/<relativePath>/README.md, and the one root document, followed
\* by the table of contents with one entry per non-root document,
\* "## Packages" coming after the root's text, is the content of
\* <outputRoot>/README.md.
C17_EveryDocumentWritten ==
    TreeWritten("dir") =>
        LET out == opts.outputPath
            rootFile == FileAt(Clean(out \o <<"/">> \o STR_README))
        IN  /\ \A i \in NonRootDocs :
                    FileAt(Clean(out \o <<"/">> \o docs[i].relDir \o <<"/">> \o STR_README))
                        = docs[i].markdown
            /\ Cardinality(RootDocs) <= 1
            /\ \A i \in RootDocs :
                    IF NonRootDocs = {} THEN rootFile = docs[i].markdown
                    ELSE \E toc \in DirTOCs : RootThenTOC(rootFile, docs[i].markdown, toc)
            /\ Len(SelectSeq(outLog, LAMBDA o : o.op = "write"))
                    = Len(docs) + (IF RootDocs = {} THEN 1 ELSE 0)

\* the README of a directory
ReadmeIn(dir) == Clean(dir \o <<"/">> \o STR_README)

\* the tree documents in-place mode has a directory for, the one in the base
\* directory, and the others
Placed == {i \in 1..Len(docs) : docs[i].pkgDir # <<>>}
InBase == {i \in Placed : Clean(docs[i].pkgDir) = Clean(treeBase)}
Subpackages == Placed \ InBase

\* the bullet of a document in in-place mode: the link leads from the base
\* directory to the README in the package's directory
InPlaceBullet(d) ==
    Bullet(IF d.relDir \notin {<<>>, <<DOT>>} THEN d.relDir
           ELSE IF d.pkgPath # <<>> THEN d.pkgPath ELSE <<DOT>>,
           Rel(Clean(treeBase), ReadmeIn(d.pkgDir)).rel, TrimSpace(d.summary))

\* the title in-place mode sorts a document by
InPlaceTitle(d) ==
    IF d.relDir \notin {<<>>, <<DOT>>} THEN d.relDir
    ELSE IF d.pkgPath # <<>> THEN d.pkgPath ELSE <<DOT>>

InPlaceTOCs ==
    {PackagesSection([k \in 1..Len(ord) |-> InPlaceBullet(docs[ord[k]])]) :
        ord \in {o \in Enumerations(Subpackages) :
                    \A k \in 1..(Len(o) - 1) :
                        LexLE(InPlaceTitle(docs[o[k]]), InPlaceTitle(docs[o[k + 1]]))}}

\* every package of the tree has a directory, in the base directory or below
\* it, and its relative path is the path from the base to it
TreeInsideBase ==
    \A i \in 1..Len(docs) :
        /\ docs[i].pkgDir # <<>>
        /\ docs[i].relDir = Rel(Clean(treeBase), docs[i].pkgDir).rel
        /\ ~HasPrefix(docs[i].relDir, STR_dotdot)

\* the files in-place mode leaves are those of directory mode, each in the
\* directory of its package
SameAsDirectoryMode ==
    /\ \A i \in NonRootDocs : FileAt(ReadmeIn(docs[i].pkgDir)) = docs[i].markdown
    /\ Cardinality(RootDocs) <= 1
    /\ \A i \in RootDocs :
            IF NonRootDocs = {} THEN FileAt(ReadmeIn(docs[i].pkgDir)) = docs[i].markdown
            ELSE \E toc \in DirTOCs :
                    RootThenTOC(FileAt(ReadmeIn(docs[i].pkgDir)), docs[i].markdown, toc)

-----------------------------------------------------------------------------
(* A broken package aborts the tree walk *)

\* the packages the loader matched that have a load error
BrokenPackages ==
    {i \in 1..Len(treeLoaded.pkgs) : Len(treeLoaded.pkgs[i].Errors) > 0}

\* the packages the loader matched whose documentation cannot be built
UndocumentablePackages ==
    {i \in 1..Len(treeLoaded.pkgs) : treeLoaded.pkgs[i].docFails}

\* the errors of those packages: the first load error of a broken one, the
\* error of doc.NewFromFiles of an undocumentable one
PackageErrors ==
    {Err("%s", treeLoaded.pkgs[i].Errors[1], <<>>) : i \in BrokenPackages}
        \cup {Err("doc.NewFromFiles failed", treeLoaded.pkgs[i].PkgPath, <<>>) :
                    i \in UndocumentablePackages}

\* C21: when a package matched during tree aggregation has a load error or
\* its documentation cannot be built, the run has failed with the error of
\* such a package as soon as the packages are collected, and no README file
\* has been written, for the healthy packages either
C21_BrokenPackageAbortsTree ==
    (treeLoaded.t = "ok" /\ BrokenPackages \cup UndocumentablePackages # {})
        => /\ epc = "done"
           /\ ret \in PackageErrors
           /\ \A i \in 1..Len(outLog) : outLog[i].op # "write"

\* C21 happens: an in-place run over a tree of a healthy package and one
\* whose documentation cannot be built has failed with the latter's error
C21_Witness ==
    /\ mode = "inplace"
    /\ treeLoaded = Answer("ok", <<PKG_nodoc, PKG_lib>>)
    /\ epc = "done"
    /\ ret = Err("doc.NewFromFiles failed", PKG_nodoc.PkgPath, <<>>)
    /\ outLog = <<>>

-----------------------------------------------------------------------------
(* A failure while a package tree is written *)

\* the output operations that failed
FailedOps == {i \in 1..Len(outLog) : ~outLog[i].ok}

\* the error os.MkdirAll or os.WriteFile returned for an operation that failed
OpError(o) == IF o.op = "mkdir" THEN MkdirErr(o.path) ELSE WriteErr(o.path)

\* the data of the last write to the path that succeeded among the first n
\* operations
WrittenBy(n, path) ==
    LET hits == {i \in 1..n : outLog[i].op = "write" /\ outLog[i].ok /\ outLog[i].path = path}
    IN  IF hits = {} THEN NoFile
        ELSE outLog[CHOOSE i \in hits : \A j \in hits : j <= i].data

\* the path of the root README of the tree
RootReadme ==
    IF mode = "inplace" THEN ReadmeIn(treeBase) ELSE ReadmeIn(opts.outputPath)

\* C22: when a directory creation or a file write has failed while a package
\* tree is written in directory mode or in place, the run has returned the
\* error of that operation as it is, the failed operation is the last one
\* (nothing is written and nothing is removed after it), every file written
\* before it holds what was written to it last, and, when the failure came
\* before the loop over the documents had ended, nothing was written to the
\* root README
C22_FailureStopsTheWrite ==
    (mode \in {"inplace", "dir"} /\ FailedOps # {})
        => /\ epc = "done"
           /\ FailedOps = {Len(outLog)}
           /\ ret = OpError(outLog[Len(outLog)])
           /\ \A i \in 1..Len(outLog) : outLog[i].op \in {"mkdir", "write"}
           /\ \A i \in 1..(Len(outLog) - 1) :
                outLog[i].op = "write"
                    => FileAt(outLog[i].path) = WrittenBy(Len(outLog) - 1, outLog[i].path)
           /\ wi <= Len(docs)
                => \A i \in 1..Len(outLog) :
                        outLog[i].op = "write" => outLog[i].path # RootReadme

\* C22 happens: the tree has a root document and the write of a subpackage's
\* README failed after the README of another subpackage had been written
C22_Witness ==
    /\ mode \in {"inplace", "dir"}
    /\ epc = "done"
    /\ RootDocs # {}
    /\ wi <= Len(docs)
    /\ Len(outLog) > 2
    /\ outLog[Len(outLog)].op = "write" /\ ~outLog[Len(outLog)].ok
    /\ ret = WriteErr(outLog[Len(outLog)].path)
    /\ \E i \in 1..(Len(outLog) - 1) :
            /\ outLog[i].op = "write" /\ outLog[i].ok
            /\ outLog[i].path # outLog[Len(outLog)].path
            /\ FileAt(outLog[i].path) = outLog[i].data

-----------------------------------------------------------------------------
(* docMarkdown only trims *)

\* the characters strings.TrimSpace takes for white space
WhiteSpace == {SP, TAB, NL, CR}

\* the text from its first to its last character that is not white space,
\* empty when it has none
Trimmed(text) ==
    LET solid == {i \in 1..Len(text) : text[i] \notin WhiteSpace}
    IN  IF solid = {} THEN <<>>
        ELSE SubSeq(text, CHOOSE i \in solid : \A j \in solid : i <= j,
                    CHOOSE i \in solid : \A j \in solid : j <= i)

\* C23: docMarkdown returns the text with its leading and trailing white
\* space removed and nothing else: no character between the first and the
\* last that is not white space is taken away, so the indentation the lines
\* after the first have in common is kept
C23_DocMarkdownOnlyTrims ==
    (fpc = "done" /\ fcall.fn = "docMarkdown") => fret = Trimmed(fcall.text)

\* C23 happens: docMarkdown has returned a text whose first line stands at
\* column 0 and whose other lines are all indented, as they were in a text
\* that had white space before its first line
C23_Witness ==
    /\ fpc = "done" /\ fcall.fn = "docMarkdown"
    /\ fcall.text = <<SP, "a", NL, SP, "a", NL>>
    /\ fret = <<"a", NL, SP, "a">>

=============================================================================
